---- MODULE Spec2Model ----
(***************************************************************************)
(* A model of Lure, a reverse proxy for the Minecraft Java Edition wire    *)
(* protocol (src/src/lure.rs, src/src/connection/connection.rs,            *)
(* src/src/connection/codec.rs).                                           *)
(*                                                                         *)
(* Three specifications share the module:                                  *)
(*   Spec         Lure::start: the admission semaphore, the accept loop,   *)
(*                one task per session and the two piping loops of the     *)
(*                play phase; a session's handlers are steps that move on  *)
(*                or end the session.                                      *)
(*   SpecSession  one session, one step per await point of the handlers    *)
(*                (handshake, status, login, online authentication,        *)
(*                routing, upstream login).                                *)
(*   SpecCodec    PacketEncoder / PacketDecoder on byte strings, and       *)
(*                Connection::pipe between two legs.                       *)
(***************************************************************************)
EXTENDS Integers, Sequences, FiniteSets, TLC

(***************************************************************************)
(* Bounds of the model.                                                    *)
(***************************************************************************)
\* Connection attempts made by clients over a run.
MaxConns == 3
\* Largest listener.max_connections the model draws.
MaxPermits == 2
\* Packets and raw byte strings a peer hands to its encoder over a run.
MaxFrames == 2
\* A read returns one byte, MaxChunk bytes, all of the bytes in flight, or
\* all but one of them.
MaxChunk == 2
\* Short reads stop once this many undelivered bytes are buffered.
MaxPending == 16
\* Frames the play phase of a session forwards.
MaxPiped == 2

VARIABLES
    \* ---- Lure::start (Spec) ----
    max_connections,  \* listener.max_connections
    permits,          \* permits available in the semaphore
    acceptPc,         \* where the accept loop is: "acquire", "accept", "stopped"
    backlog,          \* connection attempts not yet accepted
    conn,             \* per accepted connection: the session and its tasks
    \* ---- one leg's codec and Connection::pipe (SpecCodec, SpecPipe) ----
    legA,             \* source leg: [compression_threshold, encrypted]
    legB,             \* sink leg of the pipe, the same shape
    penc,             \* the PacketEncoder of the peer at the source socket
    wire,             \* bytes the peer has written that nobody has read yet
    fed,              \* every byte queued into dec so far, in order
    dec,              \* Connection.dec, the PacketDecoder of the source leg
    sent,             \* what the peer has framed or appended, in order
    appendErr,        \* an append_packet of the peer returned Err
    got,              \* the packets try_next_packet has returned, in order
    decErr,           \* has_next_packet or try_next_packet returned Err
    enc,              \* Connection.enc, the PacketEncoder of the sink leg
    sink,             \* every byte written to the sink socket, in order
    pipeSt,           \* "running" until a pipe() call returns Err
    \* ---- one session, step by step (SpecSession) ----
    scfg,             \* config.proxy: online_mode, compression_threshold, max_players
    spc,              \* the await point the session is at, or "done"
    loc,              \* locals: the handshake, the username, the verify token
    cleg,             \* the client Connection: cipher installed, compression
    uleg,             \* the backend Connection, likewise
    trace,            \* what the session has done so far, in order
    sres              \* "running", or how handle_connection ended: "ok",
                      \* "eof" (the Err of UnexpectedEof), "err", "panic"

dvars == <<max_connections, permits, acceptPc, backlog, conn>>

cvars == <<legA, legB, penc, wire, fed, dec, sent, appendErr, got,
           decErr, enc, sink, pipeSt>>

svars == <<scfg, spc, loc, cleg, uleg, trace, sres>>

vars == <<dvars, cvars, svars>>

(***************************************************************************)
(* Values of the codec's fields.                                           *)
(***************************************************************************)
\* Option<u32>
None == [some |-> FALSE, v |-> 0]
Some(x) == [some |-> TRUE, v |-> x]

\* Option<Cipher> = None
NoCipher == [some |-> FALSE, key |-> 0, reg |-> 0]

\* PacketEncoder::new(), PacketDecoder::new(): #[derive(Default)]
NewEncoder == [buf |-> <<>>, compression_threshold |-> None, cipher |-> NoCipher]
NewDecoder == [buf |-> <<>>, cursor |-> 0, compression_enabled |-> FALSE,
               cipher |-> NoCipher]

\* A u32 as its two 16-bit halves, high and low: a u32 above 2^31 - 1 is
\* no integer of the checker's.  U32(n) is the u32 of the value n >= 0.
U32(n) == [hi |-> n \div 65536, lo |-> n % 65536]

\* `u as i32`: the same 32 bits read as two's complement.
as_i32(u) ==
    IF u.hi >= 32768 THEN (u.hi - 65536) * 65536 + u.lo
    ELSE u.hi * 65536 + u.lo

\* `i as u32`: the same 32 bits read as unsigned.
as_u32(i) == [hi |-> (i \div 65536) % 65536, lo |-> i % 65536]

\* A leg with neither compression nor encryption set.
PlainLeg == [compression_threshold |-> None, encrypted |-> FALSE]

\* The locals of a session before its first packet.
NoLocals == [protocol_version |-> 0, next_state |-> 0, payload |-> 0,
             username |-> 0, verify_token |-> 0, hostname |-> "",
             uuid |-> <<>>, properties |-> <<>>]

\* The session variables while a specification that does not use them runs.
SIdle ==
    /\ scfg = [online_mode |-> TRUE, compression_threshold |-> U32(0), max_players |-> 0,
               player_forward_mode |-> "none", hosts |-> <<>>, servers |-> <<>>]
    /\ spc = "done"
    /\ loc = NoLocals
    /\ cleg = PlainLeg
    /\ uleg = PlainLeg
    /\ trace = <<>>
    /\ sres = "running"

\* The codec variables while a specification that does not use them runs.
CIdle ==
    /\ legA = PlainLeg /\ legB = PlainLeg
    /\ penc = NewEncoder /\ enc = NewEncoder /\ dec = NewDecoder
    /\ wire = <<>> /\ fed = <<>> /\ sink = <<>>
    /\ sent = <<>> /\ got = <<>>
    /\ appendErr = FALSE /\ decErr = FALSE
    /\ pipeSt = "running"

(***************************************************************************)
(* Lure::start, handle_connection and the task structure of a session.     *)
(***************************************************************************)
ConnIds == 1..MaxConns

\* A connection slot nobody has been accepted into yet.
NoConn ==
    [st |-> "idle", result |-> "none", permit |-> FALSE, released |-> 0,
     c2s |-> "none", cr |-> "none", cw |-> "none", sr |-> "none", sw |-> "none",
     lateIO |-> FALSE]

Accepted == {c \in ConnIds : conn[c].st # "idle"}

\* Connections accepted whose session (handle_connection) has not returned.
Live == {c \in ConnIds : conn[c].st \notin {"idle", "ended"}}

\* The process runs until start() returns; main then returns and the runtime
\* with every task is dropped.
Running == acceptPc # "stopped"

DInit ==
    /\ CIdle
    /\ SIdle
    /\ max_connections \in 1..MaxPermits
    /\ permits = max_connections
    /\ acceptPc = "acquire"
    /\ backlog = 0
    /\ conn = [c \in ConnIds |-> NoConn]

\* A client opens a TCP connection to the listener.
ClientConnect ==
    /\ Running
    /\ Cardinality(Accepted) + backlog < MaxConns
    /\ backlog' = backlog + 1
    /\ UNCHANGED <<svars, cvars, max_connections, permits, acceptPc, conn>>

AcquirePermitNoWait ==
    /\ acceptPc = "acquire"
    /\ acceptPc' = "accept"
    /\ UNCHANGED <<svars, cvars, max_connections, permits, backlog, conn>>

\* semaphore.clone().acquire_owned().await: completes when a permit is free.
AcquirePermit ==
    /\ acceptPc = "acquire"
    /\ permits > 0
    /\ permits' = permits - 1
    /\ acceptPc' = "accept"
    /\ UNCHANGED <<svars, cvars, max_connections, backlog, conn>>

\* listener.accept().await returns a client; the session task is spawned with
\* the permit moved into it, and the loop goes back to acquire.
Accept(c) ==
    /\ acceptPc = "accept"
    /\ backlog > 0
    /\ conn[c].st = "idle"
    /\ \A d \in ConnIds : d < c => conn[d].st # "idle"
    /\ backlog' = backlog - 1
    /\ conn' = [conn EXCEPT ![c] = [NoConn EXCEPT !.st = "handshake",
                                       !.permit = TRUE,
                                       !.cr = "open", !.cw = "open"]]
    /\ acceptPc' = "acquire"
    /\ UNCHANGED <<svars, cvars, max_connections, permits>>

\* listener.accept().await? fails: start() returns the error, dropping the
\* permit the loop holds.
AcceptError ==
    /\ acceptPc = "accept"
    /\ acceptPc' = "stopped"
    /\ permits' = permits + 1
    /\ UNCHANGED <<svars, cvars, max_connections, backlog, conn>>

\* What a socket half becomes when its owner is dropped.
Drop(h) == IF h = "open" THEN "dropped" ELSE h

EndSessionLeak(c, res) ==
    /\ conn' = [conn EXCEPT ![c] = [@ EXCEPT
            !.st = "ended", !.result = res,
            !.permit = IF res = "err" THEN @ ELSE FALSE,
            !.released = IF res = "err" THEN @ ELSE @ + 1,
            !.cr = IF conn[c].c2s = "none" THEN Drop(@) ELSE @,
            !.sw = IF conn[c].c2s = "none" THEN Drop(@) ELSE @,
            !.cw = Drop(@), !.sr = Drop(@)]]
    /\ permits' = IF res = "err" THEN permits ELSE permits + 1

\* The end of the spawned session task: handle_connection has returned res,
\* the result is logged and drop(permit) runs.  Everything the session future
\* still owns is dropped with it; what was moved into the spawned
\* client-to-server task (the client read half and the server write half) is
\* not.
EndSession(c, res) ==
    /\ conn' = [conn EXCEPT ![c] = [@ EXCEPT
            !.st = "ended", !.result = res,
            !.permit = FALSE, !.released = @ + 1,
            !.cr = IF conn[c].c2s = "none" THEN Drop(@) ELSE @,
            !.sw = IF conn[c].c2s = "none" THEN Drop(@) ELSE @,
            !.cw = Drop(@), !.sr = Drop(@)]]
    /\ permits' = permits + 1

\* handle_handshake: receive the Handshake and branch on next_state.
HandleHandshake(c) ==
    /\ Running
    /\ conn[c].st = "handshake"
    /\ \/ /\ \E next \in {"status", "login"} :
                conn' = [conn EXCEPT ![c].st = next]
          /\ UNCHANGED permits
       \/ EndSession(c, "err")
    /\ UNCHANGED <<svars, cvars, max_connections, acceptPc, backlog>>

\* handle_status: returns Ok after the ping, or the first error.
HandleStatus(c) ==
    /\ Running
    /\ conn[c].st = "status"
    /\ \E res \in {"ok", "err"} : EndSession(c, res)
    /\ UNCHANGED <<svars, cvars, max_connections, acceptPc, backlog>>

\* handle_login: returns Some(info), or the first error.
HandleLogin(c) ==
    /\ Running
    /\ conn[c].st = "login"
    /\ \/ /\ conn' = [conn EXCEPT ![c].st = "play"]
          /\ UNCHANGED permits
       \/ EndSession(c, "err")
    /\ UNCHANGED <<svars, cvars, max_connections, acceptPc, backlog>>

\* handle_play up to the dial: get_default_server, get_server, the address
\* parse and TcpStream::connect.  A failure ends the session (after the
\* DisconnectPlay where one is sent); success binds the server socket.
HandlePlay(c) ==
    /\ Running
    /\ conn[c].st = "play"
    /\ \/ EndSession(c, "err")
       \/ /\ conn' = [conn EXCEPT ![c] = [@ EXCEPT
                  !.st = "upstream", !.sr = "open", !.sw = "open"]]
          /\ UNCHANGED permits
    /\ UNCHANGED <<svars, cvars, max_connections, acceptPc, backlog>>

\* handle_play from the upstream Handshake to the select!: the upstream login
\* fails, or the streams are crossed: the client-to-server Connection (client
\* read half, server write half) is moved into a spawned task, the
\* server-to-client Connection stays in the session's own future.
UpstreamLogin(c) ==
    /\ Running
    /\ conn[c].st = "upstream"
    /\ \/ EndSession(c, "err")
       \/ /\ conn' = [conn EXCEPT ![c] = [@ EXCEPT
                  !.st = "pipe", !.c2s = "running"]]
          /\ UNCHANGED permits
    /\ UNCHANGED <<svars, cvars, max_connections, acceptPc, backlog>>

\* One client_to_server.pipe() call of the spawned task: it reads the client
\* socket and writes the server socket.  Ok loops; an error (EOF included)
\* ends the task, which drops its Connection.
PipeC2S(c) ==
    /\ Running
    /\ conn[c].c2s = "running"
    /\ \/ conn' = [conn EXCEPT ![c].lateIO = @ \/ conn[c].st = "ended"]
       \/ conn' = [conn EXCEPT ![c] = [@ EXCEPT
                  !.c2s = "finished", !.cr = "dropped", !.sw = "dropped",
                  !.lateIO = @ \/ conn[c].st = "ended"]]
    /\ UNCHANGED <<svars, cvars, max_connections, permits, acceptPc, backlog>>

\* One server_to_client.pipe() call, polled by the session task inside
\* select!.  Ok loops; an error completes the s2c branch: handle_play returns
\* it, and the JoinHandle of the client-to-server task is dropped, which
\* detaches the task and does not abort it.
PipeS2C(c) ==
    /\ Running
    /\ conn[c].st = "pipe"
    /\ \/ UNCHANGED <<conn, permits>>
       \/ EndSession(c, "err")
    /\ UNCHANGED <<svars, cvars, max_connections, acceptPc, backlog>>

\* The c2s branch of select!: the JoinHandle is ready because the spawned task
\* has ended; handle_play returns its error and the server-to-client future is
\* dropped.
JoinC2S(c) ==
    /\ Running
    /\ conn[c].st = "pipe"
    /\ conn[c].c2s = "finished"
    /\ EndSession(c, "err")
    /\ UNCHANGED <<svars, cvars, max_connections, acceptPc, backlog>>

DNext ==
    \/ ClientConnect
    \/ AcquirePermit
    \/ \E c \in ConnIds : Accept(c)
    \/ AcceptError
    \/ \E c \in ConnIds : HandleHandshake(c)
    \/ \E c \in ConnIds : HandleStatus(c)
    \/ \E c \in ConnIds : HandleLogin(c)
    \/ \E c \in ConnIds : HandlePlay(c)
    \/ \E c \in ConnIds : UpstreamLogin(c)
    \/ \E c \in ConnIds : PipeC2S(c)
    \/ \E c \in ConnIds : PipeS2C(c)
    \/ \E c \in ConnIds : JoinC2S(c)

Spec == DInit /\ [][DNext]_vars

(***************************************************************************)
(* Byte strings.  A byte string is kept run-length encoded: a sequence of  *)
(* runs <<b, n>>, n >= 1 copies of the byte b, no two neighbouring runs of *)
(* the same byte.  Every byte string has exactly one such form, so bodies  *)
(* as long as MAX_PACKET_SIZE can be built, framed and compared.           *)
(***************************************************************************)
\* The two halves of a sequence of two or more: the operators that go
\* through a string byte by byte work on the halves, so that their nesting
\* grows with the logarithm of the length.
Front(s) == SubSeq(s, 1, Len(s) \div 2)
Back(s) == SubSeq(s, Len(s) \div 2 + 1, Len(s))

RECURSIVE BLen(_)
BLen(s) == IF s = <<>> THEN 0 ELSE s[1][2] + BLen(Tail(s))

Rep(b, n) == IF n <= 0 THEN <<>> ELSE << <<b, n>> >>

\* Concatenation (BytesMut::extend_from_slice, unsplit).
BCat(s, t) ==
    IF s = <<>> THEN t
    ELSE IF t = <<>> THEN s
    ELSE IF s[Len(s)][1] = t[1][1]
         THEN SubSeq(s, 1, Len(s) - 1)
                  \o << <<t[1][1], s[Len(s)][2] + t[1][2]>> >> \o Tail(t)
         ELSE s \o t

\* The first k bytes (&buf[..k]).
RECURSIVE BTake(_, _)
BTake(s, k) ==
    IF k <= 0 \/ s = <<>> THEN <<>>
    ELSE IF s[1][2] <= k THEN <<s[1]>> \o BTake(Tail(s), k - s[1][2])
    ELSE << <<s[1][1], k>> >>

\* All but the first k bytes (&buf[k..], Buf::advance).
RECURSIVE BDrop(_, _)
BDrop(s, k) ==
    IF k <= 0 \/ s = <<>> THEN s
    ELSE IF s[1][2] <= k THEN BDrop(Tail(s), k - s[1][2])
    ELSE << <<s[1][1], s[1][2] - k>> >> \o Tail(s)

\* A byte string from its bytes, and back.
RECURSIVE Bytes(_)
Bytes(q) ==
    IF q = <<>> THEN <<>>
    ELSE IF Len(q) = 1 THEN Rep(q[1], 1)
    ELSE BCat(Bytes(Front(q)), Bytes(Back(q)))

RECURSIVE Expand(_)
Expand(s) ==
    IF s = <<>> THEN <<>>
    ELSE IF Len(s) = 1 THEN [i \in 1..s[1][2] |-> s[1][1]]
    ELSE Expand(Front(s)) \o Expand(Back(s))

(***************************************************************************)
(* VarInt (valence_protocol::var_int, as codec.rs uses it): an i32 in 1 to *)
(* 5 bytes, 7 bits a byte, least significant group first, the high bit of  *)
(* a byte saying that another follows.                                     *)
(***************************************************************************)
\* VarInt::written_size
written_size(v) ==
    IF v < 0 THEN 5
    ELSE IF v < 128 THEN 1
    ELSE IF v < 16384 THEN 2
    ELSE IF v < 2097152 THEN 3
    ELSE IF v < 268435456 THEN 4
    ELSE 5

RECURSIVE VarIntEncodeU(_)
VarIntEncodeU(u) ==
    IF u < 128 THEN <<u>>
    ELSE <<128 + (u % 128)>> \o VarIntEncodeU(u \div 128)

\* VarInt::encode: the bytes of v taken as a u32.
VarIntEncode(v) ==
    IF v >= 0 THEN VarIntEncodeU(v)
    ELSE <<128 + (v % 128),
           128 + ((v \div 128) % 128),
           128 + ((v \div 16384) % 128),
           128 + ((v \div 2097152) % 128),
           (v \div 268435456) + 16>>

\* The i32 that n <= 5 VarInt bytes carry: val |= (byte & 0x7f) << (i * 7),
\* the bits above bit 31 shifted out.
VarIntValue(q) ==
    LET g(i) == IF i <= Len(q) THEN q[i] % 128 ELSE 0
        low == g(1) + 128 * g(2) + 16384 * g(3) + 2097152 * g(4)
        hi  == g(5) % 16
    IN  IF hi < 8 THEN low + hi * 268435456
        ELSE low + (hi - 16) * 268435456

\* The index of the first of the bytes q that does not say another follows,
\* or 0.
VarIntEnd(q) ==
    IF \E i \in 1..Len(q) : q[i] < 128
    THEN CHOOSE i \in 1..Len(q) : q[i] < 128 /\ \A j \in 1..(i - 1) : q[j] >= 128
    ELSE 0

VarIntRead(q, n) ==
    IF n = 0
    THEN [st |-> IF Len(q) = 5 THEN "TooLarge" ELSE "Incomplete",
          val |-> 0, size |-> 0]
    ELSE [st |-> "Ok", val |-> VarIntValue(SubSeq(q, 1, n)), size |-> n]

VarIntFront(q) == VarIntRead(q, VarIntEnd(q))

\* VarInt::decode_partial on the front of s: Ok with the value and the number
\* of bytes read, Incomplete when s ends inside the VarInt, TooLarge when five
\* bytes all say that another follows.
decode_partial(s) == VarIntFront(Expand(BTake(s, 5)))

(***************************************************************************)
(* The stream cipher (cfb8::Cfb8<aes::Aes128>, key and IV the same 16      *)
(* bytes).  CFB8 keeps a shift register of the last ciphertext bytes and   *)
(* adds to each byte a key stream byte computed from the key and the       *)
(* register; the model keeps that structure with a register of one byte    *)
(* and a key of one byte.                                                  *)
(***************************************************************************)
\* NewCipher::new(key.into(), key.into())
NewCipher(key) == [some |-> TRUE, key |-> key, reg |-> key % 256]

KeyStream(key, reg) == (key + 7 * reg + 1) % 256

RECURSIVE CfbEncrypt(_, _, _)

\* The ciphertext ct of the bytes so far, then that of q: the register is
\* the last byte of ct.
CfbChain(key, ct, q) == ct \o CfbEncrypt(key, ct[Len(ct)], q)

\* Each ciphertext byte is the plaintext byte plus the key stream byte of
\* the ciphertext byte before it.
CfbEncrypt(key, reg, q) ==
    IF q = <<>> THEN <<>>
    ELSE IF Len(q) = 1 THEN <<(q[1] + KeyStream(key, reg)) % 256>>
    ELSE CfbChain(key, CfbEncrypt(key, reg, Front(q)), Back(q))

\* Each plaintext byte is the ciphertext byte minus the key stream byte of
\* the ciphertext byte before it.
CfbDecrypt(key, reg, q) ==
    IF q = <<>> THEN <<>>
    ELSE [i \in 1..Len(q) |->
             (q[i] + 256 - KeyStream(key, IF i = 1 THEN reg ELSE q[i - 1])) % 256]

\* The cipher after it has produced or consumed the ciphertext ct.
CipherAfter(cipher, ct) ==
    IF ct = <<>> THEN cipher ELSE [cipher EXCEPT !.reg = ct[Len(ct)]]

CipherOut(cipher, ct, out) == [out |-> Bytes(out), cipher |-> CipherAfter(cipher, ct)]

EncryptSeq(cipher, ct) == CipherOut(cipher, ct, ct)

\* cipher.encrypt(&mut buf): the ciphertext and the cipher's state after it.
encrypt(cipher, s) ==
    EncryptSeq(cipher, CfbEncrypt(cipher.key, cipher.reg, Expand(s)))

DecryptSeq(cipher, ct) ==
    CipherOut(cipher, ct, CfbDecrypt(cipher.key, cipher.reg, ct))

\* cipher.decrypt(&mut buf)
decrypt(cipher, s) == DecryptSeq(cipher, Expand(s))

(***************************************************************************)
(* zlib (flate2).  The model's deflate is a block code: after a header     *)
(* byte, a run of a byte other than 0xFF becomes the block <<1, b,         *)
(* VarInt(n)>>, and a run of 0xFF, which stands for data deflate cannot    *)
(* shrink, the stored block <<0, VarInt(n)>> followed by the n bytes.      *)
(***************************************************************************)
ZlibHeader == 120
Incompressible == 255

DeflateBlock(r) ==
    IF r[1] = Incompressible
    THEN BCat(Bytes(<<0>> \o VarIntEncode(r[2])), <<r>>)
    ELSE Bytes(<<1, r[1]>> \o VarIntEncode(r[2]))

RECURSIVE DeflateBlocks(_)
DeflateBlocks(s) ==
    IF s = <<>> THEN <<>>
    ELSE IF Len(s) = 1 THEN DeflateBlock(s[1])
    ELSE BCat(DeflateBlocks(Front(s)), DeflateBlocks(Back(s)))

\* ZlibEncoder::new(body, Compression::new(4)) read to its end.
Deflate(s) == BCat(Bytes(<<ZlibHeader>>), DeflateBlocks(s))

InflateFailed == [ok |-> FALSE, out |-> <<>>]

\* The bytes of one block followed by what the rest of the stream inflates to.
InflateJoin(bytes, r) == [ok |-> r.ok, out |-> BCat(bytes, r.out)]

\* The blocks of z inflated: the bytes produced before the stream ends or
\* breaks, and whether it was well formed to its end.
RECURSIVE InflateBlocks(_)

\* A run block: the byte b, then n, the VarInt read from the front of z1.
InflateRun(b, z1, n) ==
    IF n.st = "Ok" /\ n.val > 0
    THEN InflateJoin(Rep(b, n.val), InflateBlocks(BDrop(z1, n.size)))
    ELSE InflateFailed

\* A stored block: n, the VarInt read from the front of z1, then n bytes.
InflateStored(z1, n) ==
    IF n.st = "Ok" /\ n.val > 0 /\ BLen(z1) - n.size >= n.val
    THEN InflateJoin(BTake(BDrop(z1, n.size), n.val),
                     InflateBlocks(BDrop(z1, n.size + n.val)))
    ELSE InflateFailed

InflateBlock(op, z1) ==
    IF op = 1 /\ z1 # <<>>
    THEN InflateRun(z1[1][1], BDrop(z1, 1), decode_partial(BDrop(z1, 1)))
    ELSE IF op = 0 THEN InflateStored(z1, decode_partial(z1))
    ELSE InflateFailed

InflateBlocks(z) ==
    IF z = <<>> THEN [ok |-> TRUE, out |-> <<>>]
    ELSE InflateBlock(z[1][1], BDrop(z, 1))

Inflate(z) ==
    IF z # <<>> /\ z[1][1] = ZlibHeader THEN InflateBlocks(BDrop(z, 1))
    ELSE InflateFailed

ZlibTake(r, data_len) ==
    IF BLen(r.out) >= data_len
    THEN [ok |-> TRUE, out |-> BTake(r.out, data_len)]
    ELSE r

\* ZlibDecoder::new(z).take(data_len) read to its end: at most data_len
\* inflated bytes; an error only if the stream breaks before that many.
ZlibRead(z, data_len) == ZlibTake(Inflate(z), data_len)

(***************************************************************************)
(* Packets (valence_protocol's EncodePacket / DecodePacket, which codec.rs *)
(* only calls).  A packet is [id, data].  The model's catalogue has two    *)
(* shapes: id 0 carries a length-prefixed byte array, id 1 carries the     *)
(* rest of the body as raw bytes; any other id is unknown.                 *)
(***************************************************************************)
ArrayId == 0
RawId == 1

\* pkt.encode_packet(writer): the bytes of the body.
encode_packet(pkt) ==
    IF pkt.id = ArrayId
    THEN BCat(Bytes(<<ArrayId>> \o VarIntEncode(BLen(pkt.data))), pkt.data)
    ELSE BCat(Bytes(<<pkt.id>>), pkt.data)

NoPacket == [id |-> 0, data |-> <<>>]

DecodeFailed(r) == [ok |-> FALSE, pkt |-> NoPacket, rest |-> r]

\* The byte array of an ArrayId packet: n, the VarInt at the front of r1.
DecodeArray(r, r1, n) ==
    IF n.st = "Ok" /\ n.val >= 0 /\ BLen(r1) - n.size >= n.val
    THEN [ok |-> TRUE,
          pkt |-> [id |-> ArrayId, data |-> BTake(BDrop(r1, n.size), n.val)],
          rest |-> BDrop(r1, n.size + n.val)]
    ELSE DecodeFailed(r)

\* P::decode_packet(&mut r): the packet and what is left of r, or an error.
decode_packet(r) ==
    IF r = <<>> THEN DecodeFailed(r)
    ELSE IF r[1][1] = RawId
    THEN [ok |-> TRUE, pkt |-> [id |-> RawId, data |-> BDrop(r, 1)], rest |-> <<>>]
    ELSE IF r[1][1] = ArrayId
    THEN DecodeArray(r, BDrop(r, 1), decode_partial(BDrop(r, 1)))
    ELSE DecodeFailed(r)

(***************************************************************************)
(* PacketEncoder (codec.rs).  compress_buf is scratch space, cleared       *)
(* before each use, and is left out.                                       *)
(***************************************************************************)
\* valence_protocol::MAX_PACKET_SIZE
MAX_PACKET_SIZE == 2097151

append_bytes(e, bytes) == [e EXCEPT !.buf = BCat(@, bytes)]

\* Ok(()) with the frame head ++ tail joined to buf.
Framed(e, head, tail) ==
    [ok |-> TRUE, enc |-> [e EXCEPT !.buf = BCat(BCat(@, Bytes(head)), tail)]]

\* An ensure! of append_packet fails: the body is at the end of buf, where
\* encode_packet wrote it.
AppendFailed(e, body) == [ok |-> FALSE, enc |-> [e EXCEPT !.buf = BCat(@, body)]]

\* data_len > threshold: the frame is VarInt(packet_len), VarInt(data_len) and
\* the deflated body z.
AppendCompressed(e, body, data_len, z, packet_len) ==
    IF packet_len <= MAX_PACKET_SIZE
    THEN Framed(e, VarIntEncode(packet_len) \o VarIntEncode(data_len), z)
    ELSE AppendFailed(e, body)

AppendDeflated(e, body, data_len, z) ==
    AppendCompressed(e, body, data_len, z, written_size(data_len) + BLen(z))

AppendBodyShortLen(e, body, data_len) ==
    Framed(e, VarIntEncode(data_len), body)

\* The frame of a body at the threshold deflated as well.
AppendBodyAtThreshold(e, body, data_len) ==
    IF e.compression_threshold.some
    THEN IF data_len >= e.compression_threshold.v
         THEN AppendDeflated(e, body, data_len, Deflate(body))
         ELSE Framed(e, VarIntEncode(1 + data_len) \o VarIntEncode(0), body)
    ELSE Framed(e, VarIntEncode(data_len), body)

AppendBody(e, body, data_len) ==
    IF e.compression_threshold.some
    THEN IF data_len > e.compression_threshold.v
         THEN AppendDeflated(e, body, data_len, Deflate(body))
         ELSE IF 1 + data_len <= MAX_PACKET_SIZE
              THEN Framed(e, VarIntEncode(1 + data_len) \o VarIntEncode(0), body)
              ELSE AppendFailed(e, body)
    ELSE IF data_len <= MAX_PACKET_SIZE
         THEN Framed(e, VarIntEncode(data_len), body)
         ELSE AppendFailed(e, body)

AppendEncoded(e, body) == AppendBody(e, body, BLen(body))

\* append_packet: the body is written at the end of buf first and then framed
\* in place; the result and the encoder as the call leaves it.
append_packet(e, pkt) == AppendEncoded(e, encode_packet(pkt))

\* buf.copy_within(from..to, dest): the bytes from..to written over those
\* at dest, as memmove does.
CopyWithin(buf, from, to, dest) ==
    BCat(BCat(BTake(buf, dest), BTake(BDrop(buf, from), to - from)),
         BDrop(buf, dest + (to - from)))

\* The frame append_packet left at start_len..end_len moved to the front:
\* total_packet_len zero bytes are put at the end, everything is moved back
\* by that much, the frame is copied to the space at the front, and the
\* buffer is cut back to end_len.
Prepended(buf, start_len, end_len) ==
    BTake(CopyWithin(CopyWithin(BCat(buf, Rep(0, end_len - start_len)),
                                0, end_len, end_len - start_len),
                     (end_len - start_len) + start_len,
                     (end_len - start_len) + end_len, 0),
          end_len)

\* The frame left where append_packet wrote it, behind what was pending.
prepend_packet_unrotated(e, pkt) == append_packet(e, pkt)

\* prepend_packet: append_packet(pkt)?, then the rotation.
prepend_packet(e, pkt) ==
    IF append_packet(e, pkt).ok
    THEN [ok |-> TRUE,
          enc |-> [append_packet(e, pkt).enc EXCEPT
                       !.buf = Prepended(@, BLen(e.buf), BLen(@))]]
    ELSE append_packet(e, pkt)

\* The cipher left as it was before the bytes passed it.
TakeEncryptedRekeyed(e, c) == [bytes |-> c.out, enc |-> [e EXCEPT !.buf = <<>>]]

TakeEncrypted(e, c) ==
    [bytes |-> c.out, enc |-> [e EXCEPT !.buf = <<>>, !.cipher = c.cipher]]

\* take: everything pending, encrypted if a cipher is installed.
take(e) ==
    IF e.cipher.some THEN TakeEncrypted(e, encrypt(e.cipher, e.buf))
    ELSE [bytes |-> e.buf, enc |-> [e EXCEPT !.buf = <<>>]]

(***************************************************************************)
(* PacketDecoder (codec.rs).  decompress_buf is scratch space and is left  *)
(* out.                                                                    *)
(***************************************************************************)
QueueDecryptedFresh(d, c) == [d EXCEPT !.buf = BCat(@, c.out)]

QueueDecrypted(d, c) == [d EXCEPT !.buf = BCat(@, c.out), !.cipher = c.cipher]

\* queue_bytes: the bytes are decrypted with the decoder's cipher, which keeps
\* its state, and joined to buf.
queue_bytes(d, bytes) ==
    IF d.cipher.some THEN QueueDecrypted(d, decrypt(d.cipher, bytes))
    ELSE [d EXCEPT !.buf = BCat(@, bytes)]

\* queue_slice: the bytes are joined to buf and, with a cipher, decrypted
\* there, from the old end of buf on.
queue_slice(d, bytes) ==
    IF d.cipher.some
    THEN QueueDecrypted(d, decrypt(d.cipher, BDrop(BCat(d.buf, bytes), BLen(d.buf))))
    ELSE [d EXCEPT !.buf = BCat(@, bytes)]

\* The cipher installed over a buffer that stays as it is.
enable_encryption_ahead(d, key) == [d EXCEPT !.cipher = NewCipher(key)]

\* enable_encryption: a new cipher decrypts what is buffered from the cursor
\* on and is installed in the state that leaves it in.
enable_encryption(d, key) ==
    [d EXCEPT !.buf = BCat(BTake(@, d.cursor),
                           decrypt(NewCipher(key), BDrop(@, d.cursor)).out),
              !.cipher = decrypt(NewCipher(key), BDrop(d.buf, d.cursor)).cipher]

\* The length check has_next_packet and try_next_packet share: r is buf from
\* the cursor on, len the VarInt at its front.
\* The length taken as it comes.
FrameAheadUnchecked(r, len) ==
    IF len.st = "Incomplete" THEN "false"
    ELSE IF len.st = "TooLarge" THEN "Err"
    ELSE IF BLen(r) - len.size >= len.val THEN "true" ELSE "false"

FrameAhead(r, len) ==
    IF len.st = "Incomplete" THEN "false"
    ELSE IF len.st = "TooLarge" THEN "Err"
    ELSE IF len.val < 0 \/ len.val > MAX_PACKET_SIZE THEN "Err"
    ELSE IF BLen(r) - len.size >= len.val THEN "true" ELSE "false"

HasNextFrom(r) == FrameAhead(r, decode_partial(r))

\* has_next_packet looking from the start of buf instead of from the cursor.
has_next_packet_from_start(d) == HasNextFrom(d.buf)

\* has_next_packet: "true", "false" or "Err".
has_next_packet(d) == HasNextFrom(BDrop(d.buf, d.cursor))

TryErr(d0) == [st |-> "Err", pkt |-> NoPacket, dec |-> d0]

\* The packet is decoded: it must have read its whole body; the cursor is set
\* to the size VarInt(packet_len) is written in, plus packet_len.
TryDecoded(d0, packet_len, p) ==
    IF ~p.ok \/ p.rest # <<>> THEN TryErr(d0)
    ELSE [st |-> "Some", pkt |-> p.pkt,
          dec |-> [d0 EXCEPT !.cursor = written_size(packet_len) + packet_len]]

TryInflated(d0, packet_len, z) ==
    IF ~z.ok THEN TryErr(d0)
    ELSE TryDecoded(d0, packet_len, decode_packet(z.out))

\* Compression is enabled: data_len is the VarInt at the front of the body r.
TryCompressed(d0, packet_len, r, data_len) ==
    IF data_len.st # "Ok" THEN TryErr(d0)
    ELSE IF data_len.val < 0 \/ data_len.val >= MAX_PACKET_SIZE THEN TryErr(d0)
    ELSE IF data_len.val # 0
    THEN TryInflated(d0, packet_len,
                     ZlibRead(BDrop(r, data_len.size), data_len.val))
    ELSE TryDecoded(d0, packet_len, decode_packet(BDrop(r, data_len.size)))

\* The frame is whole: r is its body.
TryBody(d0, packet_len, r) ==
    IF d0.compression_enabled
    THEN TryCompressed(d0, packet_len, r, decode_partial(r))
    ELSE TryDecoded(d0, packet_len, decode_packet(r))

\* "No packet yet" with what was buffered thrown away.
TryFrameConsuming(d0, len, ahead) ==
    IF ahead = "Err" THEN TryErr(d0)
    ELSE IF ahead = "false"
    THEN [st |-> "None", pkt |-> NoPacket, dec |-> [d0 EXCEPT !.buf = <<>>]]
    ELSE TryBody(d0, len.val, BTake(BDrop(d0.buf, len.size), len.val))

TryFrame(d0, len, ahead) ==
    IF ahead = "Err" THEN TryErr(d0)
    ELSE IF ahead = "false" THEN [st |-> "None", pkt |-> NoPacket, dec |-> d0]
    ELSE TryBody(d0, len.val, BTake(BDrop(d0.buf, len.size), len.val))

TryLen(d0, len) == TryFrame(d0, len, FrameAhead(d0.buf, len))

TryFromCursor(d0) == TryLen(d0, decode_partial(d0.buf))

\* try_next_packet: buf is advanced to the cursor; then Ok(Some(pkt)), Ok(None)
\* or Err, with the decoder as the call leaves it.
try_next_packet(d) ==
    TryFromCursor([d EXCEPT !.buf = BDrop(@, d.cursor), !.cursor = 0])

\* Calling try_next_packet until it returns no packet: the packets, and whether
\* the last call was an Err.
RECURSIVE Drain(_)

DrainStep(r) ==
    IF r.st = "Some" THEN LET more == Drain(r.dec)
                          IN  [pkts |-> <<r.pkt>> \o more.pkts, err |-> more.err]
    ELSE [pkts |-> <<>>, err |-> r.st = "Err"]

Drain(d) == DrainStep(try_next_packet(d))

(***************************************************************************)
(* A leg's two ends.  Connection::set_compression and enable_encryption    *)
(* set the encoder and the decoder of a leg together; the peer at the      *)
(* other end of the socket is configured the same.                         *)
(***************************************************************************)
\* The shared secret of the leg (login_online, the decrypted shared secret).
SharedSecret == 23

EncoderOf(leg) ==
    [buf |-> <<>>, compression_threshold |-> leg.compression_threshold,
     cipher |-> IF leg.encrypted THEN NewCipher(SharedSecret) ELSE NoCipher]

DecoderOf(leg) ==
    [buf |-> <<>>, cursor |-> 0,
     compression_enabled |-> leg.compression_threshold.some,
     cipher |-> IF leg.encrypted THEN NewCipher(SharedSecret) ELSE NoCipher]

\* Queueing a whole stream at once into a new decoder and draining it.
DecodeAll(leg, stream) == Drain(queue_bytes(DecoderOf(leg), stream))


(***************************************************************************)
(* The codec driven through its interface (SpecCodec): a peer frames       *)
(* packets with a PacketEncoder, or appends bytes of its own, and takes    *)
(* them onto the wire; the bytes are queued into the decoder in chunks,    *)
(* with has_next_packet and try_next_packet called at any point between.   *)
(***************************************************************************)
\* The dispatcher's variables while a specification that does not use them
\* runs.
DIdle ==
    /\ max_connections = 1 /\ permits = 1
    /\ acceptPc = "stopped" /\ backlog = 0
    /\ conn = [c \in ConnIds |-> NoConn]

\* compression_threshold of a leg: not set, low, or as high as a body can be.
Thresholds == {None, Some(3), Some(MAX_PACKET_SIZE)}

\* The legs SpecCodec runs: a cipher is installed only with the bodies that
\* are short, and the high threshold matters only for the long ones.
Legs ==
    {leg \in [compression_threshold : Thresholds, encrypted : BOOLEAN] :
        leg.encrypted => leg.compression_threshold # Some(MAX_PACKET_SIZE)}

\* A packet whose body is n bytes long: the id and n - 1 bytes b.
BodyOfLen(n, b) == [id |-> RawId, data |-> Rep(b, n - 1)]

\* Bodies of 2 and 4 bytes: below and above the low threshold.
SmallPackets ==
    {[id |-> ArrayId, data |-> <<>>],
     [id |-> RawId, data |-> Bytes(<<5, 5, 7>>)]}

\* The packets the source of a pipe sends.
PipePackets ==
    SmallPackets \cup {[id |-> RawId, data |-> <<>>],
                       [id |-> RawId, data |-> Bytes(<<2>>)]}

\* Bodies at the size limit: one byte under it, shrinking and not shrinking
\* under deflate, and at it.
LargePackets ==
    {BodyOfLen(MAX_PACKET_SIZE - 1, 0),
     BodyOfLen(MAX_PACKET_SIZE - 1, Incompressible),
     BodyOfLen(MAX_PACKET_SIZE, 0)}

\* The frame of pkt as a peer may write it that encodes the length in two
\* bytes where one would do (the body is shorter than 127 bytes).
PaddedFrame(leg, pkt) ==
    LET body == IF leg.compression_threshold.some
                THEN BCat(Bytes(<<0>>), encode_packet(pkt))
                ELSE encode_packet(pkt)
    IN  BCat(Bytes(<<128 + BLen(body), 0>>), body)

\* Bytes that are no frame: a length VarInt that never ends, and a frame whose
\* body has a byte more than its packet reads.
Malformed(leg) ==
    {Rep(255, 5),
     IF leg.compression_threshold.some THEN Bytes(<<4, 0, 0, 0, 9>>)
     ELSE Bytes(<<3, 0, 0, 9>>)}

\* Bytes whose lengths are out of bounds: a packet length of -1 and one of
\* MAX_PACKET_SIZE + 1, and, for a leg with compression, whole frames whose
\* data_len is -1 and MAX_PACKET_SIZE.
OutOfBounds(leg) ==
    {Bytes(<<255, 255, 255, 255, 15>>), Bytes(<<128, 128, 128, 1>>)}
        \cup (IF leg.compression_threshold.some
              THEN {Bytes(<<5, 255, 255, 255, 255, 15>>), Bytes(<<3, 255, 255, 127>>)}
              ELSE {})

\* sent records a packet for append_packet and this for append_bytes.
RawEntry(bytes) == [id |-> -1, data |-> bytes]
NoRaw == \A i \in 1..Len(sent) : sent[i].id # -1

\* The sizes a read can have when w is in flight.
Chunks(w, d) ==
    {k \in {1, MaxChunk, BLen(w) - 1, BLen(w)} :
        /\ k >= 1 /\ k <= BLen(w)
        /\ k > MaxChunk \/ BLen(w) - k <= MaxChunk
             \/ BLen(d.buf) - d.cursor < MaxPending}

CInit ==
    /\ DIdle
    /\ SIdle
    /\ legA \in Legs
    /\ legB = PlainLeg
    /\ penc = EncoderOf(legA)
    /\ dec = DecoderOf(legA)
    /\ enc = NewEncoder
    /\ wire = <<>> /\ fed = <<>> /\ sink = <<>>
    /\ sent = <<>> /\ got = <<>>
    /\ appendErr = FALSE /\ decErr = FALSE
    /\ pipeSt = "running"

\* penc.append_packet(&pkt)
AppendPacket(pkt) ==
    /\ Len(sent) < MaxFrames
    /\ \E r \in {append_packet(penc, pkt)} :
           /\ penc' = r.enc
           /\ appendErr' = (appendErr \/ ~r.ok)
    /\ sent' = Append(sent, pkt)
    /\ UNCHANGED <<dvars, svars, legA, legB, wire, fed, dec, got, decErr, enc, sink, pipeSt>>

\* penc.append_bytes(bytes)
AppendBytes(bytes) ==
    /\ Len(sent) < MaxFrames
    /\ penc' = append_bytes(penc, bytes)
    /\ sent' = Append(sent, RawEntry(bytes))
    /\ UNCHANGED <<dvars, svars, legA, legB, wire, fed, dec, appendErr, got, decErr, enc,
                   sink, pipeSt>>

\* penc.take(), the bytes written to the socket.
Take ==
    /\ penc.buf # <<>>
    /\ \E t \in {take(penc)} :
           /\ penc' = t.enc
           /\ wire' = BCat(wire, t.bytes)
    /\ UNCHANGED <<dvars, svars, legA, legB, fed, dec, sent, appendErr, got, decErr, enc,
                   sink, pipeSt>>

\* A read of k bytes and dec.queue_bytes(buf).
QueueBytes(k) ==
    /\ ~decErr
    /\ \E bytes \in {BTake(wire, k)} :
           /\ dec' = queue_bytes(dec, bytes)
           /\ fed' = BCat(fed, bytes)
    /\ wire' = BDrop(wire, k)
    /\ UNCHANGED <<dvars, svars, legA, legB, penc, sent, appendErr, got, decErr, enc, sink,
                   pipeSt>>

\* dec.has_next_packet()?: it takes &self; an Err ends the caller.
HasNextPacket ==
    /\ ~decErr
    /\ decErr' = (has_next_packet(dec) = "Err")
    /\ UNCHANGED <<dvars, svars, legA, legB, penc, wire, fed, dec, sent, appendErr, got,
                   enc, sink, pipeSt>>

\* dec.try_next_packet()?
TryNextPacket ==
    /\ ~decErr
    /\ \E r \in {try_next_packet(dec)} :
           /\ dec' = r.dec
           /\ got' = IF r.st = "Some" THEN Append(got, r.pkt) ELSE got
           /\ decErr' = (r.st = "Err")
    /\ UNCHANGED <<dvars, svars, legA, legB, penc, wire, fed, sent, appendErr, enc, sink,
                   pipeSt>>

CNext ==
    \/ \E pkt \in SmallPackets : AppendPacket(pkt)
    \/ \E pkt \in LargePackets : ~legA.encrypted /\ AppendPacket(pkt)
    \/ /\ legA = PlainLeg
       /\ AppendPacket(BodyOfLen(MAX_PACKET_SIZE + 1, 0))
    \/ \E bytes \in Malformed(legA) : AppendBytes(bytes)
    \/ AppendBytes(PaddedFrame(legA, [id |-> ArrayId, data |-> <<>>]))
    \/ Take
    \/ \E k \in Chunks(wire, dec) : QueueBytes(k)
    \/ HasNextPacket
    \/ TryNextPacket

SpecCodec == CInit /\ [][CNext]_vars


(***************************************************************************)
(* The framers' other operations (SpecFramer): the peer also prepends      *)
(* packets, the reads are queued with queue_bytes or queue_slice, and the  *)
(* connection is keyed with Connection::enable_encryption while bytes are  *)
(* buffered in its decoder.  legA.encrypted says whether the peer encrypts *)
(* what it writes, from its first byte on.                                 *)
(***************************************************************************)
FInit ==
    /\ DIdle
    /\ SIdle
    /\ legA \in [compression_threshold : {None, Some(3)}, encrypted : BOOLEAN]
    /\ legB = PlainLeg
    /\ penc = EncoderOf(legA)
    /\ dec = DecoderOf([legA EXCEPT !.encrypted = FALSE])
    /\ enc = EncoderOf([legA EXCEPT !.encrypted = FALSE])
    /\ wire = <<>> /\ fed = <<>> /\ sink = <<>>
    /\ sent = <<>> /\ got = <<>>
    /\ appendErr = FALSE /\ decErr = FALSE
    /\ pipeSt = "running"

\* penc.prepend_packet(&pkt): the frame goes before the frames pending, which
\* are all the peer has framed when it has taken none, and after the frames
\* taken.
PrependPacket(pkt) ==
    /\ Len(sent) < MaxFrames
    /\ \E r \in {prepend_packet(penc, pkt)} :
           /\ penc' = r.enc
           /\ appendErr' = (appendErr \/ ~r.ok)
    /\ sent' = IF penc.buf = <<>> THEN Append(sent, pkt) ELSE <<pkt>> \o sent
    /\ UNCHANGED <<dvars, svars, legA, legB, wire, fed, dec, got, decErr, enc, sink, pipeSt>>

\* A read of k bytes and dec.queue_slice(&buf).
QueueSlice(k) ==
    /\ ~decErr
    /\ \E bytes \in {BTake(wire, k)} :
           /\ dec' = queue_slice(dec, bytes)
           /\ fed' = BCat(fed, bytes)
    /\ wire' = BDrop(wire, k)
    /\ UNCHANGED <<dvars, svars, legA, legB, penc, sent, appendErr, got, decErr, enc, sink,
                   pipeSt>>

\* Connection::enable_encryption(key): enc.enable_encryption(key), which
\* installs the cipher, and dec.enable_encryption(key); both assert that no
\* cipher is installed yet.
EnableEncryption ==
    /\ ~decErr
    /\ ~dec.cipher.some /\ ~enc.cipher.some
    /\ enc' = [enc EXCEPT !.cipher = NewCipher(SharedSecret)]
    /\ dec' = enable_encryption(dec, SharedSecret)
    /\ UNCHANGED <<dvars, svars, legA, legB, penc, wire, fed, sent, appendErr, got, decErr,
                   sink, pipeSt>>

\* The peer appends a packet to an empty buffer and puts a packet before
\* what is pending; the caller keys the connection while bytes are buffered,
\* and does not parse what an encrypting peer wrote before it has the key.
FNext ==
    \/ \E pkt \in SmallPackets : penc.buf = <<>> /\ AppendPacket(pkt)
    \/ \E pkt \in SmallPackets :
           /\ penc.buf = <<>> \/ (wire = <<>> /\ fed = <<>>)
           /\ PrependPacket(pkt)
    \/ AppendBytes(PaddedFrame(legA, [id |-> ArrayId, data |-> <<>>]))
    \/ \E bytes \in Malformed(legA) \cup OutOfBounds(legA) : AppendBytes(bytes)
    \/ Take
    \/ \E k \in Chunks(wire, dec) : QueueBytes(k)
    \/ \E k \in Chunks(wire, dec) : QueueSlice(k)
    \/ HasNextPacket
    \/ (legA.encrypted => dec.cipher.some) /\ TryNextPacket
    \/ BLen(dec.buf) > dec.cursor /\ EnableEncryption

SpecFramer == FInit /\ [][FNext]_vars

(***************************************************************************)
(* Connection::pipe (SpecPipe): one direction of the play phase.  The peer *)
(* at the source socket writes frames; each pipe() call reads until the    *)
(* decoder of the source leg has a frame, decodes it, appends it to the    *)
(* encoder of the sink leg, takes the bytes and writes them to the sink    *)
(* socket.  handle_play calls pipe() until one returns Err.                *)
(***************************************************************************)
PipeLegs == [compression_threshold : {None, Some(1), Some(3)}, encrypted : BOOLEAN]

PInit ==
    /\ DIdle
    /\ SIdle
    /\ legA \in PipeLegs
    /\ legB \in PipeLegs
    /\ penc = EncoderOf(legA)
    /\ dec = DecoderOf(legA)
    /\ enc = EncoderOf(legB)
    /\ wire = <<>> /\ fed = <<>> /\ sink = <<>>
    /\ sent = <<>> /\ got = <<>>
    /\ appendErr = FALSE /\ decErr = FALSE
    /\ pipeSt = "running"

\* The peer writes bytes it has framed: they pass its cipher on the way out.
SourceWrite(e) ==
    \E t \in {take(e)} :
        /\ penc' = t.enc
        /\ wire' = BCat(wire, t.bytes)

\* The peer sends pkt framed as PacketEncoder frames it.
SourceSend(pkt) ==
    /\ Len(sent) < MaxFrames
    /\ \E r \in {append_packet(penc, pkt)} : r.ok /\ SourceWrite(r.enc)
    /\ sent' = Append(sent, pkt)
    /\ UNCHANGED <<dvars, svars, legA, legB, fed, dec, appendErr, got, decErr, enc, sink,
                   pipeSt>>

\* The peer sends pkt in a frame whose length VarInt has a byte to spare.
SourceSendPadded(pkt) ==
    /\ Len(sent) < MaxFrames
    /\ SourceWrite(append_bytes(penc, PaddedFrame(legA, pkt)))
    /\ sent' = Append(sent, pkt)
    /\ UNCHANGED <<dvars, svars, legA, legB, fed, dec, appendErr, got, decErr, enc, sink,
                   pipeSt>>

\* The peer sends bytes that are no frame.
SourceSendBytes(bytes) ==
    /\ Len(sent) < MaxFrames
    /\ SourceWrite(append_bytes(penc, bytes))
    /\ sent' = Append(sent, RawEntry(bytes))
    /\ UNCHANGED <<dvars, svars, legA, legB, fed, dec, appendErr, got, decErr, enc, sink,
                   pipeSt>>

\* has_next_packet is false: read_buf returns k bytes, which are queued.
PipeRead(k) ==
    /\ pipeSt = "running"
    /\ has_next_packet(dec) = "false"
    /\ \E bytes \in {BTake(wire, k)} :
           /\ dec' = queue_bytes(dec, bytes)
           /\ fed' = BCat(fed, bytes)
    /\ wire' = BDrop(wire, k)
    /\ UNCHANGED <<dvars, svars, legA, legB, penc, sent, appendErr, got, decErr, enc, sink,
                   pipeSt>>

\* has_next_packet is false and read_buf returns 0: UnexpectedEof.
PipeEof ==
    /\ pipeSt = "running"
    /\ has_next_packet(dec) = "false"
    /\ wire = <<>>
    /\ pipeSt' = "ended"
    /\ UNCHANGED <<dvars, svars, legA, legB, penc, wire, fed, dec, sent, appendErr, got,
                   decErr, enc, sink>>

\* has_next_packet()? returns Err.
PipeFail ==
    /\ pipeSt = "running"
    /\ has_next_packet(dec) = "Err"
    /\ pipeSt' = "ended"
    /\ decErr' = TRUE
    /\ UNCHANGED <<dvars, svars, legA, legB, penc, wire, fed, dec, sent, appendErr, got,
                   enc, sink>>

\* enc.append_packet(&pkt)?, enc.take() and write_all, which writes all the
\* bytes or fails after k of them.
PipeWriteAsSource(pkt) ==
    \E a \in {append_packet([enc EXCEPT !.compression_threshold =
                                            legA.compression_threshold], pkt)} :
        \E t \in {take(a.enc)} :
            /\ enc' = [t.enc EXCEPT !.compression_threshold = enc.compression_threshold]
            /\ sink' = BCat(sink, t.bytes)
            /\ pipeSt' = "running"

PipeWrite(pkt) ==
    \E a \in {append_packet(enc, pkt)} :
        IF a.ok
        THEN \E t \in {take(a.enc)} :
               \E k \in {0, 1, BLen(t.bytes)} :
                   /\ enc' = t.enc
                   /\ sink' = BCat(sink, BTake(t.bytes, k))
                   /\ pipeSt' = IF k = BLen(t.bytes) THEN "running" ELSE "ended"
        ELSE /\ enc' = a.enc
             /\ sink' = sink
             /\ pipeSt' = "ended"

\* has_next_packet is true: try_next_packet()?, then the packet is written.
PipeForward ==
    /\ pipeSt = "running"
    /\ has_next_packet(dec) = "true"
    /\ \E r \in {try_next_packet(dec)} :
           /\ dec' = r.dec
           /\ decErr' = (r.st = "Err")
           /\ IF r.st = "Some"
              THEN got' = Append(got, r.pkt) /\ PipeWrite(r.pkt)
              ELSE got' = got /\ pipeSt' = "ended" /\ UNCHANGED <<enc, sink>>
    /\ UNCHANGED <<dvars, svars, legA, legB, penc, wire, fed, sent, appendErr>>

PNext ==
    \/ \E pkt \in PipePackets : SourceSend(pkt)
    \/ \E pkt \in PipePackets : SourceSendPadded(pkt)
    \/ \E bytes \in Malformed(legA) : SourceSendBytes(bytes)
    \/ \E k \in Chunks(wire, dec) : PipeRead(k)
    \/ PipeEof
    \/ PipeFail
    \/ PipeForward

SpecPipe == PInit /\ [][PNext]_vars

(***************************************************************************)
(* One session, from its first packet to its end (SpecSession): every      *)
(* await of handle_handshake, handle_status, handle_login, login_online    *)
(* and handle_play is one step.  trace records, in order, what the session *)
(* received, what it passed to Connection::send, and what it asked of the  *)
(* session server and of the network.                                      *)
(***************************************************************************)
ProtocolVersions == {47, 760}
Usernames == {1, 2}
Tokens == {1, 2}
UNVERIFIED_USERNAME == "multiplayer.disconnect.unverified_username"

\* config.proxy with config.hosts and config.servers.  The hosts maps know
\* the first of the two hostnames a handshake carries, the wildcard, or
\* both; the servers maps give an "ip:port" address for both servers, or
\* lack "lobby" and give "hub" an address whose host is a name, which
\* SocketAddr's parse rejects.  compression_threshold is a u32: off, the
\* default, the last value an i32 holds, the first it does not (2^31) and
\* u32::MAX.  max_players, which only the status answer
\* uses, and player_forward_mode, which only the Handshake to the backend
\* uses, are not varied against all of the rest.
ConfigThresholds ==
    {U32(0), U32(256), U32(2147483647), [hi |-> 32768, lo |-> 0],
     [hi |-> 65535, lo |-> 65535]}

ProxyConfigs ==
    {c \in [online_mode : BOOLEAN, compression_threshold : ConfigThresholds,
            max_players : {20, 4000},
            player_forward_mode : {"none", "bungeecord"},
            hosts : {("play.example" :> "lobby") @@ ("*" :> "hub"),
                     ("play.example" :> "lobby"),
                     ("*" :> "hub")},
            servers : {("lobby" :> [host |-> "10.0.0.1", port |-> 25565])
                           @@ ("hub" :> [host |-> "10.0.0.2", port |-> 25566]),
                       ("hub" :> [host |-> "hub.internal", port |-> 25566])}] :
        /\ c.max_players = 20 =>
              /\ c.online_mode /\ c.compression_threshold = U32(256)
              /\ c.player_forward_mode = "none"
              /\ DOMAIN c.hosts = {"*"} /\ DOMAIN c.servers = {"lobby", "hub"}
        /\ c.player_forward_mode = "bungeecord" => c.compression_threshold = U32(256)
        /\ c.compression_threshold \notin {U32(0), U32(256)} =>
              /\ ~c.online_mode
              /\ DOMAIN c.hosts = {"*"} /\ DOMAIN c.servers = {"lobby", "hub"}}

\* One entry of trace.  leg is "client", "backend" or "proxy"; op is "recv",
\* "send" (Connection::send returned Ok), "send_failed" (it returned Err),
\* "offline", "http" or "dial".  v, w and s are the fields of the packet
\* that matter (for the Handshake sent to a backend v is the whole packet
\* and w the IP of the client).
\* codec is what the encoder and the decoder of the leg are set to as the
\* packet passes them.
Ev(leg, op, name, v, w, s) ==
    [leg |-> leg, op |-> op, name |-> name, v |-> v, w |-> w, s |-> s,
     codec |-> IF leg = "client" THEN cleg
               ELSE IF leg = "backend" THEN uleg
               ELSE PlainLeg]

\* The session is the one connection the listener has accepted: its task
\* holds the only permit.
SInit ==
    /\ max_connections = 1 /\ permits = 0
    /\ acceptPc = "acquire" /\ backlog = 0
    /\ conn = [c \in ConnIds |->
                 IF c = 1 THEN [NoConn EXCEPT !.st = "handshake", !.permit = TRUE,
                                             !.cr = "open", !.cw = "open"]
                 ELSE NoConn]
    /\ CIdle
    /\ scfg \in ProxyConfigs
    /\ spc = "handshake"
    /\ loc = NoLocals
    /\ cleg = PlainLeg
    /\ uleg = PlainLeg
    /\ trace = <<>>
    /\ sres = "running"

\* The session goes on to the await point pc.
Goto(pc, evs) ==
    /\ spc' = pc
    /\ trace' = trace \o evs
    /\ sres' = sres

\* handle_connection returns res ("ok" or "err"), or its task panics.
End(res, evs) ==
    /\ spc' = "done"
    /\ trace' = trace \o evs
    /\ sres' = res

\* Connection::send: the packet is appended, taken and written within 5 s,
\* or the session ends with the error.
Send(leg, name, v, w, s, pc) ==
    \/ Goto(pc, <<Ev(leg, "send", name, v, w, s)>>)
    \/ End("err", <<Ev(leg, "send_failed", name, v, w, s)>>)

\* A send whose outcome does not matter: the session ends with an error.
BailUnsent(leg, name, v, w, s) == End("err", <<>>)

SendAndBail(leg, name, v, w, s) ==
    \E op \in {"send", "send_failed"} : End("err", <<Ev(leg, op, name, v, w, s)>>)

\* Connection::recv::<P> returned Err: a malformed frame or a frame that is
\* not a P ("err"), or read_buf returned 0 while no whole frame was buffered
\* ("eof").
RecvFailedOther == End("err", <<>>)

RecvFailed == \E res \in {"err", "eof"} : End(res, <<>>)

\* The await point after authentication: SetCompression when configured.
AfterAuth ==
    IF scfg.compression_threshold # U32(0) THEN "set_compression" ELSE "login_success"

RecvHandshake ==
    /\ spc = "handshake"
    /\ \/ \E pv \in ProtocolVersions, ns \in {1, 2},
               server_address \in {"play.example", "other.example"} :
            /\ Goto(IF ns = 1 THEN "status_request" ELSE "login_start",
                    <<Ev("client", "recv", "Handshake", pv, ns, server_address)>>)
            /\ loc' = [loc EXCEPT !.protocol_version = pv, !.next_state = ns,
                                  !.hostname = server_address]
       \/ RecvFailed /\ loc' = loc
    /\ UNCHANGED <<dvars, cvars, scfg, cleg, uleg>>

\* get_favicon unwraps the read and the parse of the favicon file: a file
\* that exists and is not an image makes the task panic.
RecvStatusRequest ==
    /\ spc = "status_request"
    /\ \/ Goto("status_response", <<Ev("client", "recv", "StatusRequest", 0, 0, "")>>)
       \/ End("panic", <<Ev("client", "recv", "StatusRequest", 0, 0, "")>>)
       \/ RecvFailed
    /\ UNCHANGED <<dvars, cvars, scfg, loc, cleg, uleg>>

\* The fields of the status JSON the claims speak of.
StatusJsonOnline(protocol_version, max_players) ==
    [protocol |-> protocol_version, max |-> 0]

StatusJson(protocol_version, max_players) ==
    [protocol |-> protocol_version, max |-> max_players]

SendStatusResponse ==
    /\ spc = "status_response"
    /\ \E json \in {StatusJson(loc.protocol_version, scfg.max_players)} :
           Send("client", "StatusResponse", json.protocol, json.max, "", "ping_request")
    /\ UNCHANGED <<dvars, cvars, scfg, loc, cleg, uleg>>

RecvPingRequest ==
    /\ spc = "ping_request"
    /\ \/ \E payload \in {0, 1} :
            /\ Goto("ping_response", <<Ev("client", "recv", "PingRequest", payload, 0, "")>>)
            /\ loc' = [loc EXCEPT !.payload = payload]
       \/ RecvFailed /\ loc' = loc
    /\ UNCHANGED <<dvars, cvars, scfg, cleg, uleg>>

SendPingResponse ==
    /\ spc = "ping_response"
    /\ \/ End("ok", <<Ev("client", "send", "PingResponse", loc.payload, 0, "")>>)
       \/ End("err", <<Ev("client", "send_failed", "PingResponse", loc.payload, 0, "")>>)
    /\ UNCHANGED <<dvars, cvars, scfg, loc, cleg, uleg>>

\* handle_login up to the end of login_offline, or to login_online's first
\* send.  A Uuid is its five groups of hexadecimal digits; login_offline
\* takes it from the SHA-256 digest of the username.
RecvLoginStart ==
    /\ spc = "login_start"
    /\ \/ \E username \in Usernames :
            /\ loc' = [loc EXCEPT
                          !.username = username,
                          !.uuid = IF scfg.online_mode THEN @
                                   ELSE <<"2bd806c9", "7f0e", "40af", "9a1f",
                                          IF username = 1 THEN "c3328fa763a9"
                                          ELSE "5e884898da28">>]
            /\ IF scfg.online_mode
               THEN Goto("encryption_request",
                         <<Ev("client", "recv", "LoginStart", username, 0, "")>>)
               ELSE Goto(AfterAuth,
                         <<Ev("client", "recv", "LoginStart", username, 0, ""),
                           Ev("proxy", "offline", "ClientInfo", username, 0, "")>>)
       \/ RecvFailed /\ loc' = loc
    /\ UNCHANGED <<dvars, cvars, scfg, cleg, uleg>>

SendEncryptionRequest ==
    /\ spc = "encryption_request"
    /\ \E server_verify_token \in Tokens :
        /\ loc' = [loc EXCEPT !.verify_token = server_verify_token]
        /\ Send("client", "EncryptionRequest", server_verify_token, 0, "",
                "encryption_response")
    /\ UNCHANGED <<dvars, cvars, scfg, cleg, uleg>>

\* login_online's checks of the EncryptionResponse.  verify_token and
\* secret_len are what the RSA decryption gave: 0 when it failed, else the
\* token and the length of the shared secret.
ResponseValidAnyLength(server_verify_token, verify_token, secret_len) ==
    /\ secret_len # 0
    /\ verify_token # 0
    /\ server_verify_token = verify_token

ResponseValid(server_verify_token, verify_token, secret_len) ==
    /\ secret_len # 0
    /\ verify_token # 0
    /\ server_verify_token = verify_token
    /\ secret_len = 16

\* From the EncryptionResponse to the session-server request: no await in
\* between, so the checks and enable_encryption are part of this step.
RecvEncryptionResponse ==
    /\ spc = "encryption_response"
    /\ \/ \E verify_token \in Tokens \cup {0}, secret_len \in {0, 15, 16, 17} :
            IF ResponseValid(loc.verify_token, verify_token, secret_len)
            THEN /\ Goto("session_server",
                         <<Ev("client", "recv", "EncryptionResponse",
                              verify_token, secret_len, "")>>)
                 /\ cleg' = [cleg EXCEPT !.encrypted = TRUE]
            ELSE /\ End("err", <<Ev("client", "recv", "EncryptionResponse",
                                    verify_token, secret_len, "")>>)
                 /\ cleg' = cleg
       \/ RecvFailed /\ cleg' = cleg
    /\ UNCHANGED <<dvars, cvars, scfg, loc, uleg>>

\* What login_online does with the session server's answer: "ok" goes on,
\* "kick" sends DisconnectLogin and bails, "err" bails.  name is the name of
\* the profile in the body, 0 when the body is not a GameProfile.
SessionVerdictAnyName(status, name, username) ==
    IF status = 200 THEN (IF name # 0 THEN "ok" ELSE "err")
    ELSE IF status = 204 THEN "kick"
    ELSE "err"

SessionVerdictKickAll(status, name, username) ==
    IF status = 200 THEN (IF name = username THEN "ok" ELSE "err")
    ELSE "kick"

SessionVerdict(status, name, username) ==
    IF status = 200 THEN (IF name = username THEN "ok" ELSE "err")
    ELSE IF status = 204 THEN "kick"
    ELSE "err"

AfterVerdict(verdict, ev) ==
    IF verdict = "ok" THEN Goto(AfterAuth, <<ev>>)
    ELSE IF verdict = "kick" THEN Goto("disconnect_login", <<ev>>)
    ELSE End("err", <<ev>>)

\* reqwest::get and the reading of its body; the ClientInfo has the id of
\* the profile.
SessionServer ==
    /\ spc = "session_server"
    /\ \/ End("err", <<Ev("proxy", "http", "failed", 0, 0, "")>>)
       \/ \E status \in {200, 204, 403}, name \in Usernames \cup {0} :
            AfterVerdict(SessionVerdict(status, name, loc.username),
                         Ev("proxy", "http", "hasJoined", status, name, ""))
    /\ loc' = IF spc' = AfterAuth
              THEN [loc EXCEPT !.uuid = <<"069a79f4", "44e9", "4726", "a5be",
                                          "fca90e38aaf5">>,
                               !.properties = <<[name |-> "textures",
                                                 value |-> "ewogICJ0"]>>]
              ELSE loc
    /\ UNCHANGED <<dvars, cvars, scfg, cleg, uleg>>

SendDisconnectLogin ==
    /\ spc = "disconnect_login"
    /\ SendAndBail("client", "DisconnectLogin", 0, 0, UNVERIFIED_USERNAME)
    /\ UNCHANGED <<dvars, cvars, scfg, loc, cleg, uleg>>

\* client.send(SetCompression) and then client.set_compression.
SendSetCompressionOnly ==
    /\ spc = "set_compression"
    /\ Send("client", "SetCompression", as_i32(scfg.compression_threshold), 0, "",
            "login_success")
    /\ UNCHANGED <<dvars, cvars, scfg, loc, cleg, uleg>>

SendSetCompression ==
    /\ spc = "set_compression"
    /\ Send("client", "SetCompression", as_i32(scfg.compression_threshold), 0, "",
            "login_success")
    /\ cleg' = IF spc' = "done" THEN cleg
               ELSE [cleg EXCEPT !.compression_threshold =
                                     Some(scfg.compression_threshold)]
    /\ UNCHANGED <<dvars, cvars, scfg, loc, uleg>>

SendLoginSuccess ==
    /\ spc = "login_success"
    /\ Send("client", "LoginSuccess", loc.username, loc.uuid, "", "route")
    /\ UNCHANGED <<dvars, cvars, scfg, loc, cleg, uleg>>

\* Lure::get_default_server and Lure::get_server.
get_default_server_wildcard(hosts, hostname) ==
    IF "*" \in DOMAIN hosts THEN Some(hosts["*"])
    ELSE IF hostname \in DOMAIN hosts THEN Some(hosts[hostname])
    ELSE None

get_default_server(hosts, hostname) ==
    IF hostname \in DOMAIN hosts THEN Some(hosts[hostname])
    ELSE IF "*" \in DOMAIN hosts THEN Some(hosts["*"])
    ELSE None

get_server(servers, name) ==
    IF name \in DOMAIN servers THEN Some(servers[name]) ELSE None

\* handle_play up to the backend Connection: the two lookups, the parse of
\* the address as a SocketAddr (an IP literal and a port) and the dial.
Route ==
    /\ spc = "route"
    /\ \E default_server \in {get_default_server(scfg.hosts, loc.hostname)} :
        IF ~default_server.some
        THEN SendAndBail("client", "DisconnectPlay", 0, 0, "No host found")
        ELSE \E default_server_addr \in {get_server(scfg.servers, default_server.v)} :
            IF ~default_server_addr.some
            THEN SendAndBail("client", "DisconnectPlay", 0, 0, "doesnt exist")
            ELSE IF default_server_addr.v.host \notin {"10.0.0.1", "10.0.0.2"}
            THEN End("err", <<>>)
            ELSE \/ \E op \in {"send", "send_failed"} :
                      End("err", <<Ev("proxy", "dial", "failed",
                                      default_server_addr.v.port, 0,
                                      default_server_addr.v.host),
                                   Ev("client", op, "DisconnectPlay", 0, 0,
                                      "Cannot connect to server")>>)
                 \/ Goto("up_handshake",
                         <<Ev("proxy", "dial", "connected",
                              default_server_addr.v.port, 0,
                              default_server_addr.v.host)>>)
    /\ UNCHANGED <<dvars, cvars, scfg, loc, cleg, uleg>>

\* serde_json::to_string of the properties: an array of objects.
RECURSIVE to_string(_)
to_string(properties) ==
    IF properties = <<>> THEN "[]"
    ELSE IF Len(properties) = 1
    THEN "[{\"name\":\"" \o properties[1].name \o "\",\"value\":\""
             \o properties[1].value \o "\"}]"
    ELSE "[{\"name\":\"" \o properties[1].name \o "\",\"value\":\""
             \o properties[1].value \o "\"},"
             \o SubSeq(to_string(Tail(properties)), 2, 1)

\* The server_address of the Handshake sent to the backend.  "\\0" stands
\* for the NUL character.  ip is server_address.ip(); address is the client's
\* SocketAddr as to_string() writes it, in its pieces between the colons, of
\* which the first is taken; a Uuid is displayed as its five groups with
\* hyphens between them.
handshake_server_address(player_forward_mode, ip, address, uuid, properties) ==
    IF player_forward_mode = "bungeecord"
    THEN ip \o "\\0" \o address[1] \o "\\0"
            \o uuid[1] \o "-" \o uuid[2] \o "-" \o uuid[3] \o "-" \o uuid[4]
            \o "-" \o uuid[5]
            \o "\\0" \o to_string(properties)
    ELSE ip

\* server_address, the SocketAddr handle_play dialled, is what its two
\* lookups gave; client is the address the client connected from, its IP
\* and its text in pieces.
UpSendHandshake ==
    /\ spc = "up_handshake"
    /\ \E server_address \in
            {get_server(scfg.servers,
                        get_default_server(scfg.hosts, loc.hostname).v).v},
          client \in {[ip |-> "192.0.2.7", text |-> <<"192.0.2.7", "51000">>],
                      [ip |-> "2001:db8::1",
                       text |-> <<"[2001", "db8", "", "1]", "51000">>]} :
          Send("backend", "Handshake",
               [next_state |-> 2,
                protocol_version |-> loc.protocol_version,
                server_address |->
                    handshake_server_address(scfg.player_forward_mode,
                                             server_address.host, client.text,
                                             loc.uuid, loc.properties),
                server_port |-> server_address.port],
               client.ip, "", "up_login_start")
    /\ UNCHANGED <<dvars, cvars, scfg, loc, cleg, uleg>>

UpSendLoginStart ==
    /\ spc = "up_login_start"
    /\ Send("backend", "LoginStart", loc.username, loc.uuid, "", "up_set_compression")
    /\ UNCHANGED <<dvars, cvars, scfg, loc, cleg, uleg>>

\* The thresholds a backend's SetCompression carries, an i32: compression
\* from the first byte, the default of a server, and the -1 a server has for
\* compression off.
BackendThresholds == {0, 256, -1}

\* server.recv::<SetCompression> and then server.set_compression.  A backend
\* that has compression off answers LoginStart with LoginSuccess: the frame
\* is read and is no SetCompression ("recv_failed").
UpRecvSetCompressionUnset ==
    /\ spc = "up_set_compression"
    /\ \/ \E threshold \in BackendThresholds :
            Goto("up_login_success",
                 <<Ev("backend", "recv", "SetCompression", threshold, 0, "")>>)
       \/ End("err", <<Ev("backend", "recv_failed", "LoginSuccess", 0, 0, "")>>)
       \/ RecvFailed
    /\ UNCHANGED <<dvars, cvars, scfg, loc, cleg, uleg>>

\* set_compression writing a SetCompression of its own to the backend.
UpRecvSetCompressionSending ==
    /\ spc = "up_set_compression"
    /\ \/ \E threshold \in BackendThresholds :
            /\ Goto("up_login_success",
                    <<Ev("backend", "recv", "SetCompression", threshold, 0, ""),
                      Ev("backend", "send", "SetCompression", threshold, 0, "")>>)
            /\ uleg' = [uleg EXCEPT !.compression_threshold =
                                        Some(as_u32(threshold))]
       \/ /\ End("err", <<Ev("backend", "recv_failed", "LoginSuccess", 0, 0, "")>>)
          /\ uleg' = uleg
       \/ RecvFailed /\ uleg' = uleg
    /\ UNCHANGED <<dvars, cvars, scfg, loc, cleg>>

UpRecvSetCompression ==
    /\ spc = "up_set_compression"
    /\ \/ \E threshold \in BackendThresholds :
            /\ Goto("up_login_success",
                    <<Ev("backend", "recv", "SetCompression", threshold, 0, "")>>)
            /\ uleg' = [uleg EXCEPT !.compression_threshold =
                                        Some(as_u32(threshold))]
       \/ /\ End("err", <<Ev("backend", "recv_failed", "LoginSuccess", 0, 0, "")>>)
          /\ uleg' = uleg
       \/ RecvFailed /\ uleg' = uleg
    /\ UNCHANGED <<dvars, cvars, scfg, loc, cleg>>

UpRecvLoginSuccess ==
    /\ spc = "up_login_success"
    /\ \/ Goto("pipe", <<Ev("backend", "recv", "LoginSuccess", 0, 0, "")>>)
       \/ RecvFailed
    /\ UNCHANGED <<dvars, cvars, scfg, loc, cleg, uleg>>

\* The two Connections of the play phase: the decoder and the read half of
\* one leg with the encoder and the write half of the other.
client_to_server_uncrossed == [dec |-> "client", enc |-> "client"]

client_to_server == [dec |-> "client", enc |-> "backend"]
server_to_client == [dec |-> "backend", enc |-> "client"]

\* One pipe() of a play-phase Connection: a frame is read and decoded with
\* c.dec, appended to c.enc, taken and written with write_all, which
\* returns Ok ("send") or Err ("send_failed"), or does not return while the
\* peer does not read ("write_pending").
Pipe(c) ==
    /\ spc = "pipe"
    /\ Cardinality({i \in DOMAIN trace : trace[i].op = "recv" /\ trace[i].name = "Play"})
          < MaxPiped
    /\ \E op \in {"send", "send_failed", "write_pending"} :
          /\ spc' = CASE op = "send" -> "pipe"
                      [] op = "send_failed" -> "done"
                      [] op = "write_pending" -> "pipe_write"
          /\ sres' = IF op = "send_failed" THEN "err" ELSE sres
          /\ trace' = trace \o <<Ev(c.dec, "recv", "Play", 0, 0, ""),
                                 Ev(c.enc, op, "Play", 0, 0, "")>>
    /\ UNCHANGED <<dvars, cvars, scfg, loc, cleg, uleg>>

\* The peer reads again and the write_all of a pipe() returns Ok.
PipeWritten ==
    /\ spc = "pipe_write"
    /\ spc' = "pipe"
    /\ trace' = [trace EXCEPT ![Len(trace)].op = "send"]
    /\ sres' = sres
    /\ UNCHANGED <<dvars, cvars, scfg, loc, cleg, uleg>>

\* The two pipe loops (Spec and SpecPipe have their steps): neither returns
\* Ok, so the play phase ends with an error, when a read or a write of
\* either loop fails.
PlayEnds ==
    /\ spc \in {"pipe", "pipe_write"}
    /\ End("err", <<>>)
    /\ UNCHANGED <<dvars, cvars, scfg, loc, cleg, uleg>>

\* The end of the spawned task: handle_connection has returned (or
\* panicked), and the permit the task owns is dropped.
TaskEnds ==
    /\ spc = "done"
    /\ conn[1].st # "ended"
    /\ EndSession(1, sres)
    /\ UNCHANGED <<svars, cvars, max_connections, acceptPc, backlog>>

SNext ==
    \/ RecvHandshake
    \/ RecvStatusRequest
    \/ SendStatusResponse
    \/ RecvPingRequest
    \/ SendPingResponse
    \/ RecvLoginStart
    \/ SendEncryptionRequest
    \/ RecvEncryptionResponse
    \/ SessionServer
    \/ SendDisconnectLogin
    \/ SendSetCompression
    \/ SendLoginSuccess
    \/ Route
    \/ UpSendHandshake
    \/ UpSendLoginStart
    \/ UpRecvSetCompression
    \/ UpRecvLoginSuccess
    \/ \E c \in {client_to_server, server_to_client} : Pipe(c)
    \/ PipeWritten
    \/ PlayEnds
    \/ TaskEnds

SpecSession == SInit /\ [][SNext]_vars

\* What the proxy does without waiting for a peer longer than a deadline
\* lets it: the writes of Connection::send, each under its 5000 ms timeout,
\* and the end of the task once handle_connection has returned.  A read
\* waits for the peer as long as the peer likes, and so does the write_all
\* of pipe.
SpecSessionLive ==
    /\ SpecSession
    /\ WF_vars(TaskEnds)
    /\ WF_vars(SendStatusResponse \/ SendPingResponse \/ SendEncryptionRequest
                 \/ SendDisconnectLogin \/ SendSetCompression \/ SendLoginSuccess
                 \/ UpSendHandshake \/ UpSendLoginStart)



(***************************************************************************)
(* Claims about Lure::start (checked under Spec).                          *)
(***************************************************************************)
\* The session tasks that hold an admission permit.
PermitHolders == {c \in ConnIds : conn[c].permit}

\* C1: with max_connections = K, the connections accepted whose session has
\* not ended never number more than K; while K sessions are live the accept
\* loop is not at accept(), so no further attempt is accepted; and as soon as
\* fewer than K are live the loop can take a permit and, with an attempt
\* pending, accept it.
C1_AdmissionCap ==
    /\ Cardinality(Live) <= max_connections
    /\ (Cardinality(Live) = max_connections => acceptPc # "accept")
    /\ (acceptPc = "acquire" /\ Cardinality(Live) < max_connections
            => ENABLED AcquirePermit)
    /\ (acceptPc = "accept" /\ backlog > 0
            => ENABLED (\E c \in ConnIds : Accept(c)))

\* K sessions were live with one more attempt waiting, one ended, and the
\* waiting attempt has been accepted: K are live again and K + 1 were accepted.
C1_Witness ==
    /\ Cardinality(Live) = max_connections
    /\ Cardinality(Accepted) = max_connections + 1
    /\ backlog > 0
    /\ acceptPc = "acquire"

\* C2: once a session has ended and returned its permit, neither piping loop
\* reads or writes any more and all four socket halves have been dropped,
\* whichever loop returned first.
C2_OtherLoopCancelled ==
    \A c \in ConnIds :
        conn[c].st = "ended" =>
            /\ conn[c].c2s # "running"
            /\ ~conn[c].lateIO
            /\ \A h \in {conn[c].cr, conn[c].cw, conn[c].sr, conn[c].sw} :
                    h # "open"

C3_PermitsConserved ==
    /\ permits + (IF acceptPc = "accept" THEN 1 ELSE 0)
            + Cardinality(PermitHolders) = max_connections
    /\ \A c \in ConnIds :
            /\ conn[c].permit <=> c \in Live
            /\ conn[c].released = IF conn[c].st = "ended" THEN 1 ELSE 0

\* C3: a connection holds its permit from accept until its session ends and
\* returns it exactly once, however the session ends; available permits plus
\* the one the accept loop holds plus those of the live sessions always equal
\* max_connections; and the step that ends a session leaves the accept loop
\* where it was.
C3_PermitLifetime ==
    /\ []C3_PermitsConserved
    /\ [][(\E c \in ConnIds : conn[c].st # "ended" /\ conn'[c].st = "ended")
            => acceptPc' = acceptPc]_vars

\* With one permit: a session ended with an error, its permit came back, and
\* the loop went on to accept a later connection, which ended normally.
C3_Witness ==
    /\ max_connections = 1
    /\ Running
    /\ permits = max_connections
    /\ \E c, d \in ConnIds :
            /\ c < d
            /\ conn[c].st = "ended" /\ conn[c].result = "err"
            /\ conn[c].released = 1
            /\ conn[d].st = "ended" /\ conn[d].result = "ok"

(***************************************************************************)
(* Claims about the codec (checked under SpecCodec).                       *)
(***************************************************************************)
\* The decoder once every byte the peer has appended has reached it.
Flushed == queue_bytes(dec, BCat(wire, take(penc).bytes))

BodyLen(i) == BLen(encode_packet(sent[i]))

\* got, then what draining d still delivers, is exactly sent, with no error.
DeliversAll(d) ==
    /\ ~decErr
    /\ \A rest \in {Drain(d)} : ~rest.err /\ got \o rest.pkts = sent

\* C4 as the specification words it: every body b with |b| <= MAX_PACKET_SIZE
\* that is appended with append_packet, taken and fed to an identically
\* configured decoder comes out of try_next_packet as exactly b, whatever the
\* compression and encryption settings.
C4_RoundTripUpToMax ==
    (NoRaw /\ \A i \in 1..Len(sent) : BodyLen(i) <= MAX_PACKET_SIZE)
        => (~appendErr /\ DeliversAll(Flushed))

\* C4: every body b on which append_packet succeeds, with |b| <=
\* MAX_PACKET_SIZE when compression is off and |b| < MAX_PACKET_SIZE when it is
\* on, comes out of try_next_packet of an identically configured decoder as
\* exactly b, for compression off, on with the threshold below |b|, on with
\* the threshold at or above |b|, and encryption off or on with the same key.
C4_RoundTrip ==
    (/\ NoRaw
     /\ ~appendErr
     /\ \A i \in 1..Len(sent) :
           /\ BodyLen(i) <= MAX_PACKET_SIZE
           /\ legA.compression_threshold.some => BodyLen(i) < MAX_PACKET_SIZE)
        => DeliversAll(Flushed)

\* A body one byte under the limit has been deflated, framed and delivered,
\* after a body below the threshold.
C4_Witness ==
    /\ legA.compression_threshold = Some(3)
    /\ NoRaw /\ ~appendErr
    /\ Len(sent) = 2 /\ got = sent
    /\ BodyLen(1) <= 3
    /\ BodyLen(2) = MAX_PACKET_SIZE - 1

\* C5: however the byte stream is split into chunks, and whatever calls of
\* has_next_packet and try_next_packet are made between the chunks, with or
\* without a cipher, the packets delivered, continued by draining the decoder,
\* and the error if any are those of queueing the whole stream at once into a
\* new decoder and draining it.
C5_SameAsWhole ==
    \A whole \in {DecodeAll(legA, fed)} :
        IF decErr
        THEN whole.err /\ got = whole.pkts
        ELSE \A rest \in {Drain(dec)} :
                 got \o rest.pkts = whole.pkts /\ rest.err = whole.err

\* With a cipher installed, a packet has been delivered and part of the next
\* frame is buffered while the rest of it has not been read yet.
C5_Witness ==
    /\ legA.encrypted
    /\ Len(got) >= 1
    /\ ~decErr
    /\ BLen(dec.buf) > dec.cursor
    /\ has_next_packet(dec) = "false"
    /\ wire # <<>>

(***************************************************************************)
(* Claims about Connection::pipe (checked under SpecPipe).                 *)
(***************************************************************************)
IsPrefix(s, t) == Len(s) <= Len(t) /\ SubSeq(t, 1, Len(s)) = s

\* The frames the source has sent, up to the first bytes that are no frame.
SentFrames ==
    IF NoRaw THEN sent
    ELSE SubSeq(sent, 1, (CHOOSE i \in 1..Len(sent) :
                            sent[i].id = -1 /\ \A j \in 1..(i - 1) : sent[j].id # -1) - 1)

\* C6: the frames written to the sink socket, read as the peer at the sink
\* reads them, are always a prefix of the frames received from the source
\* socket: each forwarded once, in arrival order, none dropped, duplicated,
\* reordered or made up, however the frames are spread over the reads.
C6_SinkIsPrefix == IsPrefix(DecodeAll(legB, sink).pkts, SentFrames)

(***************************************************************************)
(* Claims about one session (checked under SpecSession).  A packet counts  *)
(* as sent to a peer when the session passed it to Connection::send,       *)
(* whether or not the write then completed.                                *)
(***************************************************************************)
SentOps == {"send", "send_failed"}

\* The places in trace where the session passed a packet of this name to
\* the client's Connection::send.
Handed(name) ==
    {i \in DOMAIN trace : /\ trace[i].leg = "client"
                          /\ trace[i].op \in SentOps
                          /\ trace[i].name = name}

IsResponse(i) == trace[i].op = "recv" /\ trace[i].name = "EncryptionResponse"

IsAnswer(i) == trace[i].op = "http" /\ trace[i].name = "hasJoined"

\* The EncryptionResponse at i carries the token that was sent and a
\* 16-byte shared secret.
GoodResponse(i) ==
    IsResponse(i) /\ trace[i].v = loc.verify_token /\ trace[i].w = 16

\* The session server's answer at i is a 200 whose profile has the
\* LoginStart username.
GoodAnswer(i) ==
    IsAnswer(i) /\ trace[i].v = 200 /\ trace[i].w = loc.username

PlayPcs ==
    {"route", "up_handshake", "up_login_start", "up_set_compression",
     "up_login_success", "pipe"}

\* The session has entered handle_play.
PlayEntered ==
    \/ spc \in PlayPcs
    \/ \E i \in DOMAIN trace :
          \/ trace[i].name = "DisconnectPlay"
          \/ trace[i].op = "dial"
          \/ trace[i].leg = "backend"

\* A valid EncryptionResponse, then a good answer, both before any
\* LoginSuccess.
Authenticated ==
    \E i, j \in DOMAIN trace :
        /\ i < j
        /\ GoodResponse(i)
        /\ GoodAnswer(j)
        /\ \A k \in Handed("LoginSuccess") : j < k

\* The authentication has had an outcome other than success.
AuthFailed ==
    \E i \in DOMAIN trace :
        \/ IsResponse(i) /\ ~GoodResponse(i)
        \/ trace[i].op = "http" /\ ~GoodAnswer(i)

EndedWithError == spc = "done" /\ sres \in {"err", "eof"}

\* C7: in online mode LoginSuccess is passed to the client and handle_play
\* is entered only after a valid EncryptionResponse and then a 200 from the
\* session server whose profile name is the LoginStart username; after any
\* other outcome of the authentication the session ends with an error (at
\* most a DisconnectLogin still to send), with no LoginSuccess and no play
\* phase; and login_offline never runs.
C7_OnlineLoginNeedsAuth ==
    scfg.online_mode =>
        /\ (Handed("LoginSuccess") # {} \/ PlayEntered) => Authenticated
        /\ AuthFailed =>
              /\ EndedWithError \/ spc = "disconnect_login"
              /\ Handed("LoginSuccess") = {}
              /\ ~PlayEntered
        /\ \A i \in DOMAIN trace : trace[i].op # "offline"

C7_Witness ==
    /\ scfg.online_mode
    /\ Authenticated
    /\ Handed("LoginSuccess") # {}
    /\ spc = "up_handshake"

\* C8: an EncryptionResponse whose decrypted verify token is not the token
\* of the EncryptionRequest, or whose decrypted shared secret is not 16
\* bytes long, ends the session with an error at once: no cipher is
\* installed on the client connection, no session-server request is made
\* and no LoginSuccess is passed to the client.
C8_BadResponseAborts ==
    \A i \in DOMAIN trace :
        (IsResponse(i) /\ ~GoodResponse(i)) =>
            /\ EndedWithError
            /\ i = Len(trace)
            /\ ~cleg.encrypted
            /\ \A j \in DOMAIN trace : trace[j].op # "http"
            /\ Handed("LoginSuccess") = {}

C8_Witness ==
    /\ trace # <<>>
    /\ IsResponse(Len(trace))
    /\ trace[Len(trace)].v = loc.verify_token
    /\ trace[Len(trace)].w = 17
    /\ EndedWithError

\* The one DisconnectLogin the session may pass to the client after a 204.
IsUnverifiedKick(e) ==
    /\ e.leg = "client"
    /\ e.op \in SentOps
    /\ e.name = "DisconnectLogin"
    /\ e.s = UNVERIFIED_USERNAME

\* C9: after a 204 from the session server the session passes exactly one
\* packet to the client, a DisconnectLogin with the translation key
\* multiplayer.disconnect.unverified_username, and then ends with an error
\* (so without LoginSuccess); after any status other than 200 and 204 it
\* ends with an error without passing any packet to the client.
C9_SessionServerRefusal ==
    \A i \in DOMAIN trace :
        IsAnswer(i) =>
            /\ trace[i].v = 204 =>
                  \/ spc = "disconnect_login" /\ i = Len(trace)
                  \/ /\ EndedWithError
                     /\ Len(trace) = i + 1
                     /\ IsUnverifiedKick(trace[i + 1])
            /\ trace[i].v \notin {200, 204} =>
                  EndedWithError /\ i = Len(trace)

C9_Witness ==
    /\ Len(trace) >= 2
    /\ IsAnswer(Len(trace) - 1)
    /\ trace[Len(trace) - 1].v = 204
    /\ IsUnverifiedKick(trace[Len(trace)])
    /\ trace[Len(trace)].op = "send"
    /\ EndedWithError

StatusPcs == {"status_request", "status_response", "ping_request", "ping_response"}

StatusNames == {"StatusRequest", "StatusResponse", "PingRequest", "PingResponse"}

\* What the i-th entry of trace is in the Status branch when nothing fails.
StatusScript(i) ==
    CASE i = 1 -> Ev("client", "recv", "Handshake", loc.protocol_version, 1,
                     loc.hostname)
      [] i = 2 -> Ev("client", "recv", "StatusRequest", 0, 0, "")
      [] i = 3 -> Ev("client", "send", "StatusResponse",
                     loc.protocol_version, scfg.max_players, "")
      [] i = 4 -> Ev("client", "recv", "PingRequest", trace[4].v, 0, "")
      [] i = 5 -> Ev("client", "send", "PingResponse", trace[4].v, 0, "")

\* Entry i follows the script; a send that failed is the session's last.
FollowsScript(i) ==
    \/ trace[i] = StatusScript(i)
    \/ /\ i = Len(trace)
       /\ EndedWithError
       /\ trace[i] = [StatusScript(i) EXCEPT !.op = "send_failed"]

\* C10: the first packet a session receives is the Handshake, and its
\* next_state selects the branch.  In the Status branch the session does, in
\* this order and nothing else: receive StatusRequest, send StatusResponse
\* with version.protocol = the handshake's protocol_version and players.max =
\* config.max_players, receive PingRequest, send PingResponse with the same
\* payload, end; it installs no cipher, asks nothing of the session server
\* and dials no backend.  In the Login branch the session waits for
\* LoginStart, takes no step of the Status branch, and goes to handle_play
\* once LoginSuccess is sent.
C10_HandshakeSelectsBranch ==
    /\ trace = <<>> => (spc = "handshake" \/ EndedWithError)
    /\ trace # <<>> =>
          /\ trace[1] = [Ev("client", "recv", "Handshake",
                            loc.protocol_version, loc.next_state, loc.hostname)
                            EXCEPT !.codec = PlainLeg]
          /\ loc.next_state \in {1, 2}
    /\ loc.next_state = 1 =>
          /\ Len(trace) <= 5
          /\ \A i \in DOMAIN trace : FollowsScript(i)
          /\ spc \in StatusPcs \cup {"done"}
          /\ spc \in StatusPcs => spc = CASE Len(trace) = 1 -> "status_request"
                                          [] Len(trace) = 2 -> "status_response"
                                          [] Len(trace) = 3 -> "ping_request"
                                          [] Len(trace) = 4 -> "ping_response"
                                          [] OTHER -> "done"
          /\ sres = "ok" <=> (Len(trace) = 5 /\ trace[5].op = "send")
          /\ ~cleg.encrypted /\ uleg = PlainLeg
    /\ loc.next_state = 2 =>
          /\ spc \notin StatusPcs
          /\ sres \in {"running", "err", "eof"}
          /\ \A i \in DOMAIN trace : trace[i].name \notin StatusNames
          /\ Len(trace) = 1 => (spc = "login_start" \/ EndedWithError)
          /\ Len(trace) >= 2 => (trace[2].op = "recv" /\ trace[2].name = "LoginStart")
          /\ PlayEntered => \E k \in Handed("LoginSuccess") : trace[k].op = "send"
          /\ Len(trace) \in Handed("LoginSuccess") => (spc = "route" \/ EndedWithError)

C10_Witness ==
    /\ loc.next_state = 1
    /\ sres = "ok"
    /\ Len(trace) = 5
    /\ trace[3].w = 4000
    /\ trace[5].v = 1

\* The frame of a body as the two frame formats define it: a length and the
\* body; with compression set, a length, then the length of the body and
\* the deflated body when the body is longer than the threshold, else a
\* zero and the body as it is.
PlainFrame(body) == BCat(Bytes(VarIntEncode(BLen(body))), body)

DeflatedFrame(body, z) ==
    BCat(Bytes(VarIntEncode(written_size(BLen(body)) + BLen(z))
               \o VarIntEncode(BLen(body))), z)

CompressionFrame(body, threshold) ==
    IF BLen(body) > threshold THEN DeflatedFrame(body, Deflate(body))
    ELSE BCat(Bytes(VarIntEncode(1 + BLen(body)) \o <<0>>), body)

\* `threshold as usize`, which data_len is compared with.  No body is as
\* long as 2^31 - 1 bytes, which stands here for every threshold above it.
as_usize(u) == IF u.hi >= 32768 THEN 2147483647 ELSE u.hi * 65536 + u.lo

\* The encoder of a leg that is set as codec.
EncoderAt(codec) ==
    [NewEncoder EXCEPT
        !.compression_threshold =
            IF codec.compression_threshold.some
            THEN Some(as_usize(codec.compression_threshold.v)) ELSE None]

\* An encoder set as codec frames every packet in the non-compression
\* format, or in the compression format of the threshold.
FramesPlain(codec) ==
    \A pkt \in SmallPackets :
        append_packet(EncoderAt(codec), pkt).enc.buf = PlainFrame(encode_packet(pkt))

FramesCompressed(codec, threshold) ==
    \A pkt \in SmallPackets :
        append_packet(EncoderAt(codec), pkt).enc.buf
            = CompressionFrame(encode_packet(pkt), as_usize(threshold))

\* The places in trace where a frame was passed to the client leg's encoder.
ToClient == {i \in DOMAIN trace : trace[i].leg = "client" /\ trace[i].op \in SentOps}

\* C11: with proxy.compression_threshold > 0 the client is sent
\* SetCompression with that threshold (the u32 written as the packet's i32:
\* what the i32 denotes is C31's) before LoginSuccess, the SetCompression
\* frame in the non-compression format, and LoginSuccess and every frame to
\* the client after it in the compression format of that threshold; with
\* the threshold 0 no SetCompression is sent and compression is never set on
\* the client leg.
C11_ClientCompression ==
    /\ scfg.compression_threshold # U32(0) =>
          /\ \A i \in Handed("SetCompression") :
                /\ trace[i].v = as_i32(scfg.compression_threshold)
                /\ FramesPlain(trace[i].codec)
          /\ \A j \in Handed("LoginSuccess") :
                \E i \in Handed("SetCompression") : i < j /\ trace[i].op = "send"
          /\ \A j \in ToClient :
                (\E i \in Handed("LoginSuccess") : i <= j) =>
                    FramesCompressed(trace[j].codec, scfg.compression_threshold)
    /\ scfg.compression_threshold = U32(0) =>
          /\ Handed("SetCompression") = {}
          /\ ~cleg.compression_threshold.some
          /\ \A j \in ToClient : FramesPlain(trace[j].codec)

\* A frame is forwarded to the client in the compression format, after a
\* SetCompression and a LoginSuccess that were sent.
C11_Witness ==
    /\ scfg.compression_threshold = U32(256)
    /\ \E i, j, k \in ToClient :
          /\ i < j /\ j < k
          /\ trace[i].name = "SetCompression" /\ trace[i].op = "send"
          /\ trace[j].name = "LoginSuccess" /\ trace[j].op = "send"
          /\ trace[k].name = "Play" /\ trace[k].op = "send"
          /\ trace[k].codec.compression_threshold = Some(U32(256))

\* The places in trace where handle_play dialled a backend.
Dials == {i \in DOMAIN trace : trace[i].op = "dial"}

\* The dial at i went to the address config.servers gives for name.
DialIs(i, name) ==
    /\ name \in DOMAIN scfg.servers
    /\ trace[i].s = scfg.servers[name].host
    /\ trace[i].v = scfg.servers[name].port

\* The client was passed a DisconnectPlay with this text.
KickedWith(text) == \E i \in Handed("DisconnectPlay") : trace[i].s = text

\* handle_play is past its lookups.
Looked ==
    /\ spc # "route"
    /\ \E k \in Handed("LoginSuccess") : trace[k].op = "send"

\* C12: the backend of a session whose handshake carried hostname h is the
\* server hosts[h] when h is a key of hosts, whatever the wildcard says,
\* else the server hosts["*"] when that key exists, else there is no host;
\* the address dialled is servers[that server name].
C12_BackendResolution ==
    /\ \A i \in Dials :
          /\ loc.hostname \in DOMAIN scfg.hosts =>
                DialIs(i, scfg.hosts[loc.hostname])
          /\ loc.hostname \notin DOMAIN scfg.hosts =>
                "*" \in DOMAIN scfg.hosts /\ DialIs(i, scfg.hosts["*"])
    /\ KickedWith("No host found") =>
          loc.hostname \notin DOMAIN scfg.hosts /\ "*" \notin DOMAIN scfg.hosts
    /\ Looked /\ loc.hostname \notin DOMAIN scfg.hosts /\ "*" \notin DOMAIN scfg.hosts
          => KickedWith("No host found")

\* A hostname that is a key was dialled at its own server although the
\* wildcard names another.
C12_Witness ==
    /\ DOMAIN scfg.hosts = {"play.example", "*"}
    /\ loc.hostname = "play.example"
    /\ \E i \in Dials : trace[i].name = "connected" /\ trace[i].s = "10.0.0.1"
    /\ scfg.servers[scfg.hosts["*"]].host = "10.0.0.2"

\* The server name the lookup in config.hosts gives, "" when it gives none.
HostOf ==
    IF loc.hostname \in DOMAIN scfg.hosts THEN scfg.hosts[loc.hostname]
    ELSE IF "*" \in DOMAIN scfg.hosts THEN scfg.hosts["*"]
    ELSE ""

\* Why handle_play could not reach a backend: the text of the DisconnectPlay
\* that names the cause, "" when routing did not fail in one of these ways.
RoutingFailure ==
    IF ~Looked THEN ""
    ELSE IF HostOf = "" THEN "No host found"
    ELSE IF HostOf \notin DOMAIN scfg.servers THEN "doesnt exist"
    ELSE IF \E i \in Dials : trace[i].name = "failed" THEN "Cannot connect to server"
    ELSE ""

\* C13: when routing fails because no host is found, because the server
\* name is not in config.servers or because the dial fails, the client,
\* which has been sent LoginSuccess, is passed exactly one DisconnectPlay,
\* which names that cause, and it is the last thing the session does before
\* it ends with an error; nothing is sent to a backend.  No DisconnectPlay is
\* passed for any other reason.
C13_RoutingFailureKicks ==
    /\ RoutingFailure # "" =>
          /\ Cardinality(Handed("DisconnectPlay")) = 1
          /\ Handed("DisconnectPlay") = {Len(trace)}
          /\ trace[Len(trace)].s = RoutingFailure
          /\ EndedWithError
          /\ \A i \in DOMAIN trace : trace[i].leg # "backend"
          /\ \E k \in Handed("LoginSuccess") : trace[k].op = "send"
    /\ Handed("DisconnectPlay") # {} => RoutingFailure # ""

\* The dial failed and the client was sent the DisconnectPlay that says so.
C13_Witness ==
    /\ RoutingFailure = "Cannot connect to server"
    /\ trace[Len(trace)].op = "send"
    /\ trace[Len(trace)].name = "DisconnectPlay"
    /\ trace[Len(trace) - 1].op = "dial"

\* What passed the backend leg, in order.
IsBackend(e) == e.leg = "backend"
Upstream == SelectSeq(trace, IsBackend)

\* The k-th packet of the backend leg has this name and was passed to send
\* (and the one before it was sent), or was received.
UpSent(k, name) ==
    /\ Upstream[k].name = name
    /\ Upstream[k].op \in SentOps
    /\ k > 1 => Upstream[k - 1].op = "send"

UpReceived(k, name) ==
    /\ Upstream[k].name = name
    /\ Upstream[k].op = "recv"
    /\ Upstream[k - 1].op \in {"send", "recv"}

\* The backend answered LoginStart with LoginSuccess, which recv took for
\* the SetCompression and refused.
RefusedLoginSuccess ==
    /\ Len(Upstream) = 3
    /\ Upstream[3].name = "LoginSuccess"
    /\ Upstream[3].op = "recv_failed"

\* C14: after a dial that succeeded the backend is sent Handshake, with
\* next_state Login, the protocol_version of the client's Handshake and the
\* port that was dialled, and then LoginStart with the username and the uuid
\* the client was given in LoginSuccess, and nothing else; then SetCompression
\* is received and the backend leg's encoder and decoder are set to its
\* threshold; then LoginSuccess is received; and no frame is forwarded in
\* either direction before that.
C14_UpstreamLogin ==
    /\ Upstream # <<>> =>
          \E d \in Dials :
              /\ trace[d].name = "connected"
              /\ \A i \in DOMAIN trace : IsBackend(trace[i]) => d < i
              /\ Upstream[1].v.server_port = trace[d].v
    /\ Len(Upstream) >= 1 =>
          /\ UpSent(1, "Handshake")
          /\ Upstream[1].v.next_state = 2
          /\ Upstream[1].v.protocol_version = trace[1].v
    /\ Len(Upstream) >= 2 =>
          /\ UpSent(2, "LoginStart")
          /\ Upstream[2].v = trace[2].v
          /\ \E k \in Handed("LoginSuccess") : Upstream[2].w = trace[k].w
    /\ Len(Upstream) >= 3 =>
          \/ UpReceived(3, "SetCompression")
          \/ RefusedLoginSuccess /\ EndedWithError
    /\ Len(Upstream) >= 4 => UpReceived(4, "LoginSuccess")
    /\ \A k \in DOMAIN Upstream :
          /\ k <= 3 => ~Upstream[k].codec.compression_threshold.some
          /\ k > 3 => Upstream[k].codec.compression_threshold
                          = Some(as_u32(Upstream[3].v))
          /\ k > 4 => Upstream[k].name = "Play"
    /\ uleg.compression_threshold =
          IF Len(Upstream) >= 3 /\ ~RefusedLoginSuccess
          THEN Some(as_u32(Upstream[3].v))
          ELSE None
    /\ \A i \in DOMAIN trace :
          trace[i].name = "Play" =>
              \E j \in 1..(i - 1) :
                  /\ IsBackend(trace[j])
                  /\ trace[j].name = "LoginSuccess"
                  /\ trace[j].op = "recv"
    /\ spc = "pipe" => Len(Upstream) >= 4

\* A client frame was forwarded to the backend after the backend's
\* SetCompression and LoginSuccess.
C14_Witness ==
    /\ Len(Upstream) >= 5
    /\ Upstream[1].v.protocol_version = 760
    /\ Upstream[1].v.server_port = 25566
    /\ Upstream[3].v = 256
    /\ Upstream[5].op = "send"
    /\ Upstream[5].codec.compression_threshold = Some(U32(256))

\* C15: the upstream login goes on to the pipe phase whether the backend
\* answers LoginStart with SetCompression and then LoginSuccess or with
\* LoginSuccess alone: a LoginSuccess that arrives where SetCompression may
\* arrive is received and does not end the session.
C15_EitherReplyAccepted ==
    \A k \in DOMAIN Upstream :
        Upstream[k].name = "LoginSuccess" => Upstream[k].op = "recv"

\* C16: every write has a 5-second deadline, the writes of pipe as well as
\* those of send: a write that is pending on a peer that does not read ends,
\* and with it the session, so that no session stays in a write forever.
C16_NoWriteBlocksForever ==
    (spc = "pipe_write") ~> (spc = "done" /\ sres = "err")

\* The places in trace where pipe() read a frame; what it did with the
\* frame is the next entry.
PipeReads == {i \in DOMAIN trace : trace[i].op = "recv" /\ trace[i].name = "Play"}

\* C17: the client leg has a cipher on its encoder and its decoder exactly
\* when the session is in online mode and has validated the
\* EncryptionResponse, and every packet of the client leg from then on
\* passes the cipher; the backend leg never has one.  In the play phase a
\* frame read from the client is decrypted and written to the backend in
\* the clear, and a frame read in the clear from the backend is encrypted
\* to the client.  In offline mode no EncryptionRequest is sent and nothing
\* on either leg is encrypted.
C17_CipherOnClientLegOnly ==
    /\ cleg.encrypted <=> (scfg.online_mode /\ \E i \in DOMAIN trace : GoodResponse(i))
    /\ ~uleg.encrypted
    /\ \A i \in DOMAIN trace :
          /\ trace[i].leg = "backend" => ~trace[i].codec.encrypted
          /\ trace[i].leg = "client" =>
                (trace[i].codec.encrypted <=> \E j \in 1..(i - 1) : GoodResponse(j))
    /\ \A i \in PipeReads :
          /\ i < Len(trace)
          /\ trace[i + 1].name = "Play" /\ trace[i + 1].op # "recv"
          /\ {trace[i].leg, trace[i + 1].leg} = {"client", "backend"}
          /\ trace[i].leg = "client" =>
                /\ trace[i].codec.encrypted = scfg.online_mode
                /\ ~trace[i + 1].codec.encrypted
          /\ trace[i].leg = "backend" =>
                /\ ~trace[i].codec.encrypted
                /\ trace[i + 1].codec.encrypted = scfg.online_mode
    /\ ~scfg.online_mode =>
          /\ Handed("EncryptionRequest") = {}
          /\ \A i \in DOMAIN trace : ~trace[i].codec.encrypted

\* In online mode a frame went each way: decrypted from the client and in
\* the clear to the backend, and in the clear from the backend and
\* encrypted to the client.
C17_Witness ==
    /\ scfg.online_mode
    /\ \E i, j \in PipeReads :
          /\ trace[i].leg = "client" /\ trace[i].codec.encrypted
          /\ trace[i + 1].op = "send" /\ ~trace[i + 1].codec.encrypted
          /\ trace[j].leg = "backend" /\ ~trace[j].codec.encrypted
          /\ trace[j + 1].op = "send" /\ trace[j + 1].codec.encrypted

\* The text BungeeCord's IP forwarding puts in server_address: the IP of the
\* backend, the IP of the client, the uuid as its 32 digits and the
\* properties as JSON, with a NUL between them.
Forwarded(backend_ip, client_ip, uuid, properties) ==
    backend_ip \o "\\0" \o client_ip \o "\\0"
        \o uuid[1] \o uuid[2] \o uuid[3] \o uuid[4] \o uuid[5]
        \o "\\0" \o (IF properties = <<>> THEN "[]" ELSE to_string(properties))

\* C18: the server_address of the Handshake sent to the backend is, with
\* player_forward_mode "bungeecord", the backend IP, the client IP, the
\* player's uuid without hyphens and the properties as JSON ("[]" when
\* there are none), separated by NULs; with any other mode it is the backend
\* IP.
C18_ForwardedAddress ==
    \A i \in DOMAIN trace :
        IsBackend(trace[i]) /\ trace[i].name = "Handshake" =>
            \E d \in Dials :
                trace[i].v.server_address =
                    IF scfg.player_forward_mode = "bungeecord"
                    THEN Forwarded(trace[d].s, trace[i].w, loc.uuid, loc.properties)
                    ELSE trace[d].s

\* The await points of a session before the play phase that are a recv.
PrePlayRecvs ==
    {"handshake", "status_request", "ping_request", "login_start",
     "encryption_response", "up_set_compression", "up_login_success"}

\* C19: in every state in which the session waits in a recv before the
\* play phase, the peer closing its socket makes the recv fail with
\* UnexpectedEof; handle_connection then returns that error, and the
\* permit of the session is released.
C19_EofReleasesPermit ==
    /\ [](spc \in PrePlayRecvs => ENABLED (SNext /\ spc' = "done" /\ sres' = "eof"))
    /\ [](sres = "eof" => spc = "done")
    /\ [](conn[1].permit <=> permits = 0)
    /\ (sres = "eof") ~> (~conn[1].permit /\ permits = max_connections)

\* The backend closed its socket after its SetCompression, and the permit
\* is back.
C19_Witness ==
    /\ sres = "eof"
    /\ Len(Upstream) = 3
    /\ Upstream[3].name = "SetCompression"
    /\ ~conn[1].permit
    /\ permits = 1

(***************************************************************************)
(* Claims about the frames a pipe writes (checked under SpecPipe).         *)
(***************************************************************************)
\* The frame of a body on a leg with this compression_threshold.
ExpectedFrame(body, threshold) ==
    IF threshold.some THEN CompressionFrame(body, threshold.v) ELSE PlainFrame(body)

\* The frames of pkts one after the other.
RECURSIVE ExpectedFrames(_, _)
ExpectedFrames(pkts, threshold) ==
    IF pkts = <<>> THEN <<>>
    ELSE BCat(ExpectedFrames(SubSeq(pkts, 1, Len(pkts) - 1), threshold),
              ExpectedFrame(encode_packet(pkts[Len(pkts)]), threshold))

\* What the pipe has written to the sink socket, before the sink leg's
\* cipher.
SinkClear ==
    IF legB.encrypted THEN decrypt(NewCipher(SharedSecret), sink).out ELSE sink

\* The sink has the bytes written and no others: all of them while the
\* pipe runs, and all but an end of the last frame when a write failed.
WrittenIs(written, clear) ==
    /\ BLen(clear) <= BLen(written)
    /\ BTake(written, BLen(clear)) = clear
    /\ pipeSt = "running" => clear = written

\* C20: every frame a pipe forwards leaves in the frame format of the sink
\* leg's compression_threshold, deflated exactly when its body is longer
\* than that threshold, and with the body of the packet that was decoded,
\* whatever the format of the source leg and of the frame as it arrived;
\* the packets decoded are the packets sent, in order, when the source
\* sends nothing but frames as its encoder writes them, and the first is
\* the first that was sent in any case.
C20_SinkFraming ==
    /\ WrittenIs(ExpectedFrames(got, legB.compression_threshold), SinkClear)
    /\ got # <<>> /\ sent[1].id # -1 => got[1] = sent[1]
    /\ NoRaw /\ BLen(wire) + BLen(fed)
                   = BLen(ExpectedFrames(sent, legA.compression_threshold))
          => IsPrefix(got, sent)

\* A two-byte body arrived with the zero marker (the source threshold is 3)
\* and left deflated (the sink threshold is 1).
C20_Witness ==
    /\ legA.compression_threshold = Some(3)
    /\ legB.compression_threshold = Some(1)
    /\ pipeSt = "running"
    /\ got = <<[id |-> ArrayId, data |-> <<>>]>>
    /\ sent = got
    /\ SinkClear = DeflatedFrame(encode_packet(got[1]), Deflate(encode_packet(got[1])))

(***************************************************************************)
(* Claims about PacketEncoder::append_packet with compression enabled      *)
(* (checked under SpecPipe, on the encoder of the peer at the source).     *)
(***************************************************************************)
\* The bytes of the source leg as they were before its cipher.
ClearOf(bytes) ==
    IF legA.encrypted THEN decrypt(NewCipher(SharedSecret), bytes).out ELSE bytes

\* Every byte the source has written, before the source leg's cipher.
SourceClear == ClearOf(BCat(fed, wire))

\* varint(1 + len), a single zero byte, the raw body.
MarkedFrame(body) == BCat(Bytes(VarIntEncode(1 + BLen(body)) \o <<0>>), body)

\* The step has written exactly frame, by append_packet and take, after
\* what the source had written before.
Emits(pkt, frame, before, after) ==
    /\ append_packet(penc, pkt).enc.buf = frame
    /\ after = BCat(before, frame)

\* C21: with compression enabled at threshold T, append_packet emits a
\* body of length T or less as varint(1 + len), a zero byte and the raw
\* body, and a body of length T + 1 or more as varint(total), varint(len)
\* and the deflated bytes, total being the size of varint(len) plus the
\* number of deflated bytes.  (A step that adds pkt to sent is the peer's
\* encoder framing it, unless it wrote the frame with the padded length.)
C21_ThresholdSemantics ==
    [][\A pkt \in PipePackets :
        \A before \in {SourceClear} :
          \A after \in {ClearOf(BCat(fed', wire'))} :
            (/\ sent' = Append(sent, pkt)
             /\ after # BCat(before, PaddedFrame(legA, pkt))
             /\ legA.compression_threshold.some)
              => \A body \in {encode_packet(pkt)} :
                     /\ BLen(body) <= legA.compression_threshold.v
                            => Emits(pkt, MarkedFrame(body), before, after)
                     /\ BLen(body) >= legA.compression_threshold.v + 1
                            => \A z \in {Deflate(body)} :
                                 \A total \in {written_size(BLen(body)) + BLen(z)} :
                                   Emits(pkt,
                                         BCat(Bytes(VarIntEncode(total)
                                                    \o VarIntEncode(BLen(body))), z),
                                         before, after)]_vars

\* With the threshold at 1, a body of one byte has left with the zero
\* marker and a body of two bytes after it deflated.
C21_Witness ==
    /\ legA.compression_threshold = Some(1)
    /\ Len(sent) = 2
    /\ BLen(encode_packet(sent[1])) = 1
    /\ BLen(encode_packet(sent[2])) = 2
    /\ SourceClear = BCat(MarkedFrame(encode_packet(sent[1])),
                          DeflatedFrame(encode_packet(sent[2]),
                                        Deflate(encode_packet(sent[2]))))

(***************************************************************************)
(* Claims about the encoder's pending buffer (checked under SpecCodec).    *)
(***************************************************************************)
\* The packets SpecCodec hands to append_packet.
Appended == SmallPackets \cup LargePackets \cup {BodyOfLen(MAX_PACKET_SIZE + 1, 0)}

\* C22: append_packet is atomic on failure: when it returns an error (a
\* packet exceeding MAX_PACKET_SIZE, with no compression, compressed, or
\* below the threshold), the encoder's pending buffer is exactly what it
\* was before the call, so that a later take emits no byte of the failed
\* packet.
C22_AppendAtomic ==
    [][\A pkt \in Appended :
          (sent' = Append(sent, pkt) /\ ~append_packet(penc, pkt).ok)
              => /\ penc'.buf = penc.buf
                 /\ take(penc').bytes = take(penc).bytes]_vars

(***************************************************************************)
(* Claims about keying a decoder that has bytes buffered (checked under    *)
(* SpecFramer).                                                            *)
(***************************************************************************)
\* The step installs the decoder's cipher.
Keyed == ~dec.cipher.some /\ dec'.cipher.some

\* C23 as the specification words it: enabling encryption on the decoder
\* while bytes are buffered only affects bytes received after activation;
\* the bytes queued before enable_encryption are left as they were.
C23_BufferedLeftAlone ==
    [][Keyed => /\ dec'.buf = dec.buf
                /\ dec'.cursor = dec.cursor]_vars

\* What an encrypting peer has framed is delivered, or will be, as sent.
ParsedOnceKeyed == legA.encrypted /\ dec.cipher.some /\ NoRaw => DeliversAll(Flushed)

\* C23: enable_encryption decrypts the bytes buffered from the cursor on
\* with the new cipher, which goes on from there with the bytes received
\* later, and leaves the bytes before the cursor alone; so the frames an
\* encrypting peer wrote are parsed as the frames they are, whether they
\* were buffered before the activation or received after it.
C23_BufferedDecrypted ==
    /\ [][Keyed =>
             \A c \in {decrypt(NewCipher(SharedSecret), BDrop(dec.buf, dec.cursor))} :
                 /\ BTake(dec'.buf, dec.cursor) = BTake(dec.buf, dec.cursor)
                 /\ BDrop(dec'.buf, dec.cursor) = c.out
                 /\ dec'.cipher = c.cipher
                 /\ dec'.cursor = dec.cursor
                 /\ dec'.compression_enabled = dec.compression_enabled]_vars
    /\ []ParsedOnceKeyed

\* The peer encrypts; a whole frame of it was buffered in the decoder
\* when the connection was keyed, and both its frames have been delivered.
C23_Witness ==
    /\ legA.encrypted
    /\ dec.cipher.some
    /\ Len(sent) = 2
    /\ got = sent
    /\ wire = <<>>

(***************************************************************************)
(* Claims about the encoder's cipher (checked under SpecCodec).            *)
(***************************************************************************)
\* What the entries of sent put into the pending buffer, in order: the frame
\* of a packet, and the bytes given to append_bytes as they are.
RECURSIVE Pended(_, _)
Pended(entries, threshold) ==
    IF entries = <<>> THEN <<>>
    ELSE BCat(Pended(SubSeq(entries, 1, Len(entries) - 1), threshold),
              IF entries[Len(entries)].id = -1 THEN entries[Len(entries)].data
              ELSE ExpectedFrame(encode_packet(entries[Len(entries)]), threshold))

\* The bytes taken so far are one ciphertext of the stream of bytes pended
\* before them, and the cipher stands where that ciphertext ends.
EncryptedOnce(taken) ==
    /\ BCat(decrypt(NewCipher(SharedSecret), taken).out, penc.buf)
           = Pended(sent, legA.compression_threshold)
    /\ penc.cipher = CipherAfter(NewCipher(SharedSecret), Expand(taken))

\* C24: with a cipher installed on the encoder, over any sequence of
\* append_packet and take calls every byte handed out by take has been
\* encrypted exactly once, in stream order, the cipher state carried from one
\* take to the next; take always leaves the pending buffer empty; and the
\* frames, sent through any number of takes and decrypted by an identically
\* keyed decoder, come out as the frames that were sent.
C24_CipherAcrossTakes ==
    /\ [](legA.encrypted => EncryptedOnce(BCat(fed, wire)))
    /\ [](legA.encrypted /\ NoRaw => DeliversAll(Flushed))
    /\ [][fed' = fed /\ wire' # wire => penc'.buf = <<>>]_vars

\* A frame has been taken through the cipher and delivered, and the next
\* frame is pending in the new buffer, to go through the cipher where the
\* first take left it.
C24_Witness ==
    /\ legA.encrypted
    /\ Len(sent) = 2 /\ NoRaw
    /\ got = <<sent[1]>>
    /\ wire = <<>>
    /\ penc.buf = ExpectedFrame(encode_packet(sent[2]), legA.compression_threshold)
    /\ penc.cipher # NewCipher(SharedSecret)

(***************************************************************************)
(* Claims about the decoder's cursor (checked under SpecFramer).           *)
(***************************************************************************)
\* Every byte queued so far as the decoder holds it: decrypted once the
\* decoder is keyed.
Received ==
    IF dec.cipher.some THEN decrypt(NewCipher(SharedSecret), fed).out ELSE fed

\* The bytes of buf from the cursor on are the bytes received after the
\* first n.
QueuedFrom(n) ==
    /\ n <= BLen(fed)
    /\ BDrop(dec.buf, dec.cursor) = BDrop(Received, n)

\* C25: after any sequence of queue_bytes, queue_slice, has_next_packet,
\* try_next_packet and enable_encryption calls, 0 <= cursor <= len(buf), the
\* bytes before the cursor belong to frames already delivered and the bytes
\* from the cursor on are exactly the received bytes not yet delivered: the
\* cursor sits on the first byte after the frames delivered.  (The peer's
\* bytes are frames, and the decoder is keyed only for a peer that encrypts.)
C25_CursorInvariant ==
    (~decErr /\ (dec.cipher.some => legA.encrypted))
        => /\ 0 <= dec.cursor
           /\ dec.cursor <= BLen(dec.buf)
           /\ Len(got) <= Len(sent)
           /\ QueuedFrom(BLen(Pended(SubSeq(sent, 1, Len(got)),
                                     legA.compression_threshold)))

(***************************************************************************)
(* Claims about has_next_packet and try_next_packet (checked under         *)
(* SpecCodec).                                                             *)
(***************************************************************************)
\* The decoder d holds, undelivered, what the decoder dec holds, and is set
\* and keyed the same; rest, queued into either, is parsed the same.
SameQueued(d, rest) ==
    /\ BDrop(d.buf, d.cursor) = BDrop(dec.buf, dec.cursor)
    /\ d.cipher = dec.cipher
    /\ d.compression_enabled = dec.compression_enabled
    /\ Drain(queue_bytes(d, rest)) = Drain(queue_bytes(dec, rest))

\* C26: has_next_packet never changes the decoder, and a try_next_packet
\* that returns "no packet yet" (the length VarInt incomplete, or fewer than
\* packet_len bytes buffered) changes nothing of what is queued: the
\* undelivered bytes are the same before and after, so that the frame is
\* delivered intact once the remaining bytes arrive.
C26_NoPacketYetKeepsState ==
    /\ [][HasNextPacket => dec' = dec]_vars
    /\ [][(TryNextPacket /\ try_next_packet(dec).st = "None")
             => \A d \in {dec'} :
                    SameQueued(d, BCat(wire, take(penc).bytes))]_vars

\* After a packet was delivered, try_next_packet has returned "no packet
\* yet" with a part of the next frame buffered and the rest of it not yet
\* read.
C26_Witness ==
    /\ Len(got) >= 1
    /\ ~decErr
    /\ dec.cursor = 0
    /\ dec.buf # <<>>
    /\ has_next_packet(dec) = "false"
    /\ wire # <<>>
    /\ NoRaw /\ Len(sent) = 2

(***************************************************************************)
(* Claims about the decoder's errors (checked under SpecFramer).           *)
(***************************************************************************)
\* The length VarInt at the front of r is no length of a frame: it has more
\* than 5 bytes, or it is negative or greater than MAX_PACKET_SIZE.
LengthError(len) ==
    \/ len.st = "TooLarge"
    \/ len.st = "Ok" /\ (len.val < 0 \/ len.val > MAX_PACKET_SIZE)

\* The body of a whole frame cannot be a packet: with compression its
\* data_len is negative or not below MAX_PACKET_SIZE, or the packet decoded
\* from it leaves bytes of it unread.
DataLenError(body) ==
    /\ dec.compression_enabled
    /\ decode_partial(body).st = "Ok"
    /\ \/ decode_partial(body).val < 0
       \/ decode_partial(body).val >= MAX_PACKET_SIZE

Leftover(body) ==
    \A raw \in {IF dec.compression_enabled THEN BDrop(body, 1) ELSE body} :
        /\ dec.compression_enabled => body # <<>> /\ body[1][1] = 0
        /\ decode_packet(raw).ok
        /\ decode_packet(raw).rest # <<>>

\* What is wrong with the bytes queued in the decoder, if anything is.
Fault(r, len) ==
    IF LengthError(len) THEN "length"
    ELSE IF len.st # "Ok" \/ BLen(r) - len.size < len.val THEN "none"
    ELSE IF DataLenError(BTake(BDrop(r, len.size), len.val)) THEN "data_len"
    ELSE IF Leftover(BTake(BDrop(r, len.size), len.val)) THEN "leftover"
    ELSE "none"

FaultQueued == Fault(BDrop(dec.buf, dec.cursor), decode_partial(BDrop(dec.buf, dec.cursor)))

\* C27: the decoder fails, and delivers no packet, when the length VarInt has
\* more than 5 bytes, when packet_len is negative or greater than
\* MAX_PACKET_SIZE, when with compression enabled data_len is negative or not
\* below MAX_PACKET_SIZE, or when the packet decoded leaves bytes of the body
\* unread; has_next_packet fails exactly on the length errors, on which
\* try_next_packet fails as well; and the failure is final: nothing is
\* delivered or queued after it.
C27_DecoderErrorsFatal ==
    /\ [](~decErr =>
             /\ FaultQueued # "none" => try_next_packet(dec).st = "Err"
             /\ has_next_packet(dec) = "Err" <=> FaultQueued = "length")
    /\ [][(TryNextPacket /\ FaultQueued # "none") => decErr' /\ got' = got]_vars
    /\ [][decErr => got' = got /\ dec' = dec /\ decErr']_vars

\* With compression enabled, a frame whose data_len is MAX_PACKET_SIZE was
\* queued whole and try_next_packet has failed on it, after a packet had
\* been delivered.
C27_Witness ==
    /\ decErr
    /\ dec.compression_enabled
    /\ Len(got) = 1
    /\ Len(sent) = 2
    /\ sent[2] = RawEntry(Bytes(<<3, 255, 255, 127>>))
    /\ wire = <<>>
    /\ has_next_packet(dec) = "true"

(***************************************************************************)
(* Claims about prepend_packet (checked under SpecFramer).                 *)
(***************************************************************************)
\* C28: prepend_packet puts the new frame before everything pending: if the
\* encoder's buffer holds the bytes X and the packet is encoded to the frame
\* F, the buffer afterwards is exactly F followed by X, for any X, empty or
\* not, shorter or longer than F; the packet is then the first that the
\* peer's decoder delivers of what was pending.
C28_PrependPutsFirst ==
    /\ [][\A pkt \in SmallPackets :
             PrependPacket(pkt)
                 => penc'.buf = BCat(ExpectedFrame(encode_packet(pkt),
                                                   legA.compression_threshold),
                                     penc.buf)]_vars
    /\ [](NoRaw /\ (legA.encrypted <=> dec.cipher.some) => DeliversAll(Flushed))

\* A frame of five bytes has been put before a pending frame of three, so
\* that the regions copied overlap, and nothing has been taken yet.
C28_Witness ==
    /\ ~legA.compression_threshold.some
    /\ Len(sent) = 2 /\ NoRaw
    /\ wire = <<>> /\ fed = <<>>
    /\ BLen(PlainFrame(encode_packet(sent[1]))) = 5
    /\ BLen(PlainFrame(encode_packet(sent[2]))) = 3
    /\ penc.buf = BCat(PlainFrame(encode_packet(sent[1])),
                       PlainFrame(encode_packet(sent[2])))

(***************************************************************************)
(* Claims about Connection::set_compression (checked under SpecSession).   *)
(***************************************************************************)
\* The places in trace where a SetCompression was passed to send on a leg.
SetCompressionTo(leg) ==
    {i \in DOMAIN trace : /\ trace[i].leg = leg
                          /\ trace[i].name = "SetCompression"
                          /\ trace[i].op \in SentOps}

\* C29 as the specification words it: set_compression(threshold) sends
\* SetCompression{threshold} on the connection it is called on and then
\* enables compression on its decoder and its encoder; so a leg whose
\* compression is enabled has been sent a SetCompression with its threshold.
C29_SetCompressionSends ==
    /\ cleg.compression_threshold.some =>
          \E i \in SetCompressionTo("client") :
              as_u32(trace[i].v) = cleg.compression_threshold.v
    /\ uleg.compression_threshold.some =>
          \E i \in SetCompressionTo("backend") :
              as_u32(trace[i].v) = uleg.compression_threshold.v

\* From the place k of trace on, the frames of the leg are written and read
\* in the compression format of the threshold.
EnabledFrom(k, leg, threshold) ==
    \A i \in (k + 1)..Len(trace) :
        trace[i].leg = leg => trace[i].codec.compression_threshold = Some(threshold)

\* C29: set_compression(threshold) sends nothing; it enables compression,
\* at that threshold, on the decoder and the encoder of the connection it is
\* called on.  On the client leg handle_login itself sends the one
\* SetCompression, before the call; on the backend leg the call follows the
\* SetCompression received, and none is ever sent to the backend.
C29_SetCompressionOnlyEnables ==
    /\ [](/\ SetCompressionTo("backend") = {}
          /\ Cardinality(SetCompressionTo("client")) <= 1
          /\ \A k \in DOMAIN trace :
                /\ (trace[k].leg = "backend" /\ trace[k].name = "SetCompression"
                        /\ trace[k].op = "recv")
                      => /\ ~trace[k].codec.compression_threshold.some
                         /\ EnabledFrom(k, "backend", as_u32(trace[k].v))
                /\ (k \in SetCompressionTo("client") /\ trace[k].op = "send")
                      => /\ ~trace[k].codec.compression_threshold.some
                         /\ EnabledFrom(k, "client", as_u32(trace[k].v)))
    /\ [][uleg' # uleg =>
             /\ Len(trace') = Len(trace) + 1
             /\ trace'[Len(trace')].leg = "backend"
             /\ trace'[Len(trace')].op = "recv"
             /\ trace'[Len(trace')].name = "SetCompression"
             /\ uleg' = [uleg EXCEPT !.compression_threshold =
                                         Some(as_u32(trace'[Len(trace')].v))]]_vars
    /\ [][cleg'.compression_threshold # cleg.compression_threshold =>
             /\ Len(trace') = Len(trace) + 1
             /\ Len(trace') \in SetCompressionTo("client")'
             /\ trace'[Len(trace')].op = "send"
             /\ cleg'.compression_threshold = Some(scfg.compression_threshold)]_vars

\* The backend leg's compression was enabled at the threshold received, a
\* frame was then read from the backend and one written to it in that
\* format, and no SetCompression was sent to the backend.
C29_Witness ==
    /\ uleg.compression_threshold = Some(U32(256))
    /\ SetCompressionTo("backend") = {}
    /\ \E i, j \in DOMAIN trace :
          /\ trace[i].leg = "backend" /\ trace[j].leg = "backend"
          /\ trace[i].name = "Play" /\ trace[i].op = "recv"
          /\ trace[j].name = "Play" /\ trace[j].op = "send"
          /\ trace[i].codec.compression_threshold = Some(U32(256))
          /\ trace[j].codec.compression_threshold = Some(U32(256))

(***************************************************************************)
(* Claims about has_next_packet followed by try_next_packet (checked under *)
(* SpecFramer).                                                            *)
(***************************************************************************)
\* C30: whenever has_next_packet returns true, a try_next_packet called next
\* on the same decoder returns a packet or an error, never "no packet yet":
\* the expect of Connection::recv and Connection::pipe cannot panic, at any
\* cursor position, with compression on or off.
C30_HasNextThenPacketOrError ==
    has_next_packet(dec) = "true" => try_next_packet(dec).st \in {"Some", "Err"}

\* Compression is on, a packet was delivered and its bytes are still in buf
\* before the cursor, has_next_packet is true and try_next_packet returns
\* the next packet.
C30_Witness ==
    /\ legA.compression_threshold.some
    /\ dec.cursor > 0
    /\ got # <<>>
    /\ ~decErr
    /\ has_next_packet(dec) = "true"
    /\ try_next_packet(dec).st = "Some"

(***************************************************************************)
(* Claims about the threshold of SetCompression and of the encoder        *)
(* (checked under SpecSession).                                            *)
(***************************************************************************)
\* The i32 a SetCompression carries and the u32 an encoder is set to are the
\* same number.
SameThreshold(carried, threshold) == carried >= 0 /\ U32(carried) = threshold

\* The places in trace where a SetCompression passed the wire of a leg: sent
\* to the client, received from the backend.
Negotiated(leg) ==
    {i \in DOMAIN trace : /\ trace[i].leg = leg
                          /\ trace[i].name = "SetCompression"
                          /\ trace[i].op = IF leg = "client" THEN "send" ELSE "recv"}

\* C31: on each leg the threshold the SetCompression packet carries, an i32,
\* is the threshold the proxy's encoder of that leg uses, for every u32
\* proxy.compression_threshold on the client leg (cast with as i32) and
\* every i32 received from the backend (cast with as u32).
C31_ThresholdsAgree ==
    /\ \A i \in Negotiated("client") :
          /\ cleg.compression_threshold.some
          /\ SameThreshold(trace[i].v, cleg.compression_threshold.v)
    /\ \A i \in Negotiated("backend") :
          /\ uleg.compression_threshold.some
          /\ SameThreshold(trace[i].v, uleg.compression_threshold.v)

====
